---- MODULE Spec2Model ----
(***************************************************************************)
(* A model of the kitchen-api stock review pipeline:                       *)
(*   app/services/finnhub.py       the market-data gateway                 *)
(*   app/services/sec.py           the filing fact store client            *)
(*   app/services/content_generator*.py   the content generation tier      *)
(*   app/services/stock_review.py  the review orchestrator                 *)
(* JSON values are tagged records: [t |-> "none"], [t |-> "num", n |-> 3],  *)
(* [t |-> "str", s |-> "x"], [t |-> "obj", f |-> <record>],                 *)
(* [t |-> "list", items |-> <sequence>].                                    *)
(***************************************************************************)
EXTENDS Integers, Sequences, FiniteSets, TLC

\* ------------------------------------------------------------ JSON values
Absent == [t |-> "none"]
Num(n) == [t |-> "num", n |-> n]
\* a number with a fractional part, given in thousandths
Milli(n) == [t |-> "milli", n |-> n]
Str(s) == [t |-> "str", s |-> s]
Obj(fields) == [t |-> "obj", f |-> fields]
List(items) == [t |-> "list", items |-> items]
NoFields == [k \in {} |-> Absent]
EmptyObj == Obj(NoFields)
EmptyList == List(<<>>)

\* dict.get(key): the value, or None when the key is missing
Get(o, k) == IF k \in DOMAIN o.f THEN o.f[k] ELSE Absent

\* Python truthiness of a JSON value
Truthy(x) ==
    CASE x.t = "none" -> FALSE
      [] x.t = "num" -> x.n # 0
      [] x.t = "milli" -> x.n # 0
      [] x.t = "str" -> x.s # ""
      [] x.t = "obj" -> DOMAIN x.f # {}
      [] x.t = "list" -> Len(x.items) > 0
      [] OTHER -> TRUE

IsObj(x) == x.t = "obj"
IsList(x) == x.t = "list"

\* ------------------------------------------------------- market-data gateway
Calls == {"quote", "profile", "recommendations", "price_target"}

\* stop_after_attempt(3) of FinnhubService._request
MaxAttempts == 3

\* what one GET of the market-data provider can come back with
Statuses == {"200", "429", "401", "500", "timeout", "neterr"}

\* the provider's 200 payloads, per endpoint
QuotePayloads ==
    { Obj([c |-> Num(100), dp |-> Num(-12)]),
      Obj([c |-> Num(100), dp |-> Num(2)]) }
ProfilePayloads ==
    { Obj([name |-> Str("Acme Corp"), exchange |-> Str("NASDAQ NMS - GLOBAL MARKET")]),
      EmptyObj }
RecommendationPayloads ==
    { List(<< Obj([strongBuy |-> Num(2), buy |-> Num(1), hold |-> Num(0),
                   sell |-> Num(0), strongSell |-> Num(0)]) >>),
      EmptyList }
PriceTargetPayloads ==
    { Obj([targetMean |-> Num(125), targetMedian |-> Num(120),
           targetHigh |-> Num(150), targetLow |-> Num(90)]),
      Obj([targetMean |-> Num(125), targetMedian |-> Num(120),
           targetHigh |-> Absent, targetLow |-> Absent]) }

Payloads(c) ==
    CASE c = "quote" -> QuotePayloads
      [] c = "profile" -> ProfilePayloads
      [] c = "recommendations" -> RecommendationPayloads
      [] c = "price_target" -> PriceTargetPayloads

\* One run of the body of FinnhubService._request on a response:
\* what the body returns or raises.
RequestBody(status, payload) ==
    CASE status = "429" ->
           [kind |-> "raise", exc |-> "FinnhubRateLimitError", val |-> Absent, status |-> status]
      [] status = "401" ->
           [kind |-> "raise", exc |-> "FINNHUB_UNAUTHORIZED", val |-> Absent, status |-> status]
      [] status = "timeout" ->
           [kind |-> "raise", exc |-> "UPSTREAM_TIMEOUT", val |-> Absent, status |-> status]
      [] status = "neterr" ->
           [kind |-> "raise", exc |-> "NetworkError", val |-> Absent, status |-> status]
      [] status = "200" ->
           [kind |-> "return", exc |-> "", val |-> payload, status |-> status]
      [] OTHER ->
           [kind |-> "return", exc |-> "", val |-> EmptyObj, status |-> status]

\* a retry predicate that retries on every exception
RetryOnAnyError(out) == out.kind = "raise"

\* retry=retry_if_exception_type(FinnhubRateLimitError)
RetryOn(out) == out.kind = "raise" /\ out.exc = "FinnhubRateLimitError"

\* The tenacity wrapper after attempt number n of a call ended with `out`:
\* another attempt, or the call's end (a RetryError once the attempts are used
\* up). A call is [st, attempt, exc, val, status]: the attempts made so far
\* while it runs (the retry state is gone once the call ended), what it ended
\* with, and the status of the last response.
AfterAttempt(n, out) ==
    IF RetryOn(out)
    THEN IF n >= MaxAttempts
         THEN [st |-> "raised", attempt |-> 0, exc |-> "RetryError", val |-> Absent,
               status |-> out.status]
         ELSE [st |-> "running", attempt |-> n, exc |-> "", val |-> Absent,
               status |-> out.status]
    ELSE IF out.kind = "raise"
         THEN [st |-> "raised", attempt |-> 0, exc |-> out.exc, val |-> Absent,
               status |-> out.status]
         ELSE [st |-> "returned", attempt |-> 0, exc |-> "", val |-> out.val,
               status |-> out.status]

IdleCall == [st |-> "idle", attempt |-> 0, exc |-> "", val |-> Absent, status |-> ""]
StartedCall == [st |-> "running", attempt |-> 0, exc |-> "", val |-> Absent, status |-> ""]

\* The default of a slot whose call raised (get_all_stock_data's "Handle exceptions")
SlotDefault(c) == IF c = "recommendations" THEN EmptyList ELSE EmptyObj

\* a slot built without the isinstance(recommendations, list) check
SlotUnchecked(c, call) == IF call.st = "raised" THEN SlotDefault(c) ELSE call.val

\* One slot of the dict get_all_stock_data returns, from its call's end
Slot(c, call) ==
    LET got == IF call.st = "raised" THEN SlotDefault(c) ELSE call.val
    IN  IF c = "recommendations"
        THEN IF IsList(got) THEN got ELSE EmptyList
        ELSE got

\* ------------------------------------------------- analyst consensus engine
Abs(n) == IF n < 0 THEN -n ELSE n

\* round(num/den) to the nearest integer, ties to even (Python's round), den > 0
RoundHalfEven(num, den) ==
    LET q == num \div den
        r == num % den
    IN  IF 2 * r < den THEN q
        ELSE IF 2 * r > den THEN q + 1
        ELSE IF q % 2 = 0 THEN q ELSE q + 1

\* latest.get(key, 0) or 0
CountOf(latest, k) ==
    LET x == Get(latest, k) IN IF Truthy(x) THEN x.n ELSE 0

DistKeys == {"strongBuy", "buy", "hold", "sell", "strongSell"}
ZeroDist == [k \in DistKeys |-> 0]
DistTotal(d) == d["strongBuy"] + d["buy"] + d["hold"] + d["sell"] + d["strongSell"]
DistWeighted(d) ==
    d["strongBuy"] * 5 + d["buy"] * 4 + d["hold"] * 3 + d["sell"] * 2 + d["strongSell"] * 1

\* a labelling whose bands exclude their lower boundary
LabelOfStrict(weighted, total) ==
    IF 2 * weighted > 9 * total THEN "strong_buy"
    ELSE IF 2 * weighted > 7 * total THEN "buy"
    ELSE IF 2 * weighted > 5 * total THEN "hold"
    ELSE IF 2 * weighted > 3 * total THEN "sell"
    ELSE "strong_sell"

\* the label of score = weighted/total, total > 0 (thresholds 4.5, 3.5, 2.5, 1.5)
LabelOf(weighted, total) ==
    IF 2 * weighted >= 9 * total THEN "strong_buy"
    ELSE IF 2 * weighted >= 7 * total THEN "buy"
    ELSE IF 2 * weighted >= 5 * total THEN "hold"
    ELSE IF 2 * weighted >= 3 * total THEN "sell"
    ELSE "strong_sell"

NoTargets == [consensus |-> Absent, median |-> Absent, high |-> Absent, low |-> Absent]

\* FinnhubService.calculate_analyst_data; score_1_5 is kept in hundredths
CalculateAnalystData(recommendations, price_target) ==
    LET has == Len(recommendations.items) > 0
        latest == recommendations.items[1]
        dist == IF has THEN [k \in DistKeys |-> CountOf(latest, k)] ELSE ZeroDist
        total == DistTotal(dist)
        scored == has /\ total > 0
    IN  [ score_1_5 |-> IF scored
                        THEN Num(RoundHalfEven(100 * DistWeighted(dist), total))
                        ELSE Absent,
          label |-> IF scored THEN Str(LabelOf(DistWeighted(dist), total)) ELSE Absent,
          distribution |-> dist,
          analysts_count |-> IF has THEN total ELSE 0,
          targets |-> IF Truthy(price_target) /\ Truthy(Get(price_target, "targetMean"))
                      THEN [consensus |-> Get(price_target, "targetMean"),
                            median |-> Get(price_target, "targetMedian"),
                            high |-> Get(price_target, "targetHigh"),
                            low |-> Get(price_target, "targetLow")]
                      ELSE NoTargets ]

\* quote.get("c", 0)
CurrentPrice(quote) == IF "c" \in DOMAIN quote.f THEN quote.f["c"] ELSE Num(0)

\* a guard that tests the consensus only
UpsideGuardConsensusOnly(cons, price) == Truthy(cons)

\* if analyst_data["targets"]["consensus"] and current_price (and the same test
\* of the two insight generators)
UpsideGuard(cons, price) == Truthy(cons) /\ Truthy(price)

\* the exception of ((consensus - price) / price) * 100, "" if there is none
DivisionError(cons, price) ==
    IF cons.t # "num" \/ price.t # "num" THEN "TypeError"
    ELSE IF price.n = 0 THEN "ZeroDivisionError"
    ELSE ""

\* an exception that leaves the code computing a value, in that value's place
Propagated(exc) == [t |-> "raise", exc |-> exc]

\* the KPI block of generate_review; the upside is kept in hundredths of a percent
KpiData(quote, analyst) ==
    LET price == CurrentPrice(quote)
        cons == analyst.targets.consensus
    IN  [ price |-> price,
          day_change_pct |-> Get(quote, "dp"),
          analyst_score_1_5 |-> analyst.score_1_5,
          analyst_label |-> analyst.label,
          analysts_count |-> analyst.analysts_count,
          price_target_consensus |-> cons,
          price_target_upside_pct |->
              IF UpsideGuard(cons, price)
              THEN IF DivisionError(cons, price) # ""
                   THEN Propagated(DivisionError(cons, price))
                   ELSE Num(IF price.n > 0
                            THEN RoundHalfEven((cons.n - price.n) * 10000, price.n)
                            ELSE RoundHalfEven((price.n - cons.n) * 10000, -price.n))
              ELSE Absent ]

\* ------------------------------------------------ heuristic insight generator
\* upside = (consensus - price) / price * 100 compared with k, price # 0
UpsideAbove(cons, price, k) ==
    IF price > 0 THEN (cons - price) * 100 > k * price
    ELSE (cons - price) * 100 < k * price
UpsideBelow(cons, price, k) ==
    IF price > 0 THEN (cons - price) * 100 < k * price
    ELSE (cons - price) * 100 > k * price

ConsensusInsight(analyst) ==
    LET score == analyst.score_1_5
    IN  IF ~Truthy(score) THEN <<>>
        ELSE IF score.n >= 400 THEN << [kind |-> "consensus", severity |-> "low"] >>
        ELSE IF score.n <= 250 THEN << [kind |-> "consensus", severity |-> "high"] >>
        ELSE <<>>

TargetInsight(kpi, analyst) ==
    LET cons == analyst.targets.consensus
        price == kpi.price
    IN  IF ~UpsideGuard(cons, price) THEN <<>>
        ELSE IF UpsideAbove(cons.n, price.n, 20)
             THEN << [kind |-> "price_target", severity |-> "low"] >>
        ELSE IF UpsideBelow(cons.n, price.n, -10)
             THEN << [kind |-> "price_target", severity |-> "high"] >>
        ELSE <<>>

MoveInsight(kpi) ==
    LET dc == kpi.day_change_pct
    IN  IF Truthy(dc) /\ Abs(dc.n) > 5
        THEN << [kind |-> "daily_move",
                 severity |-> IF Abs(dc.n) > 10 THEN "high" ELSE "medium"] >>
        ELSE <<>>

\* The f-string of the Claude generator's upside branch formats
\* targets.get('low', 0) and targets.get('high', 0) with :.2f, which raises a
\* TypeError on None (the keys are always present, so the default never applies).
ClaudeEvidenceRaises(kpi, analyst) ==
    LET cons == analyst.targets.consensus
        price == kpi.price
    IN  /\ UpsideGuard(cons, price)
        /\ UpsideAbove(cons.n, price.n, 20)
        /\ (analyst.targets.low.t # "num" \/ analyst.targets.high.t # "num")

\* generate_insights of either generator: the insights, or the exception
GenerateInsights(provider, kpi, analyst) ==
    IF /\ UpsideGuard(analyst.targets.consensus, kpi.price)
       /\ DivisionError(analyst.targets.consensus, kpi.price) # ""
    THEN [kind |-> "raise", exc |-> DivisionError(analyst.targets.consensus, kpi.price),
          items |-> <<>>]
    ELSE IF provider = "claude" /\ ClaudeEvidenceRaises(kpi, analyst)
    THEN [kind |-> "raise", exc |-> "TypeError", items |-> <<>>]
    ELSE [kind |-> "return", exc |-> "",
          items |-> ConsensusInsight(analyst) \o TargetInsight(kpi, analyst)
                    \o MoveInsight(kpi)]

\* ------------------------------------------------- filing fact store client
\* A reported fact is [form, end, val, fp]. Its period-end string is a tuple:
\* <<>> for a missing or empty "end", <<y, m, d>> for the text "y-m-d"
\* (tuples compare as the strings do).
NoEnd == <<>>

\* string comparison a < b of two period-end strings
RECURSIVE EndLess(_, _)
EndLess(a, b) ==
    IF Len(b) = 0 THEN FALSE
    ELSE IF Len(a) = 0 THEN TRUE
    ELSE IF a[1] # b[1] THEN a[1] < b[1]
    ELSE EndLess(Tail(a), Tail(b))

DaysIn(y, m) ==
    IF m \in {4, 6, 9, 11} THEN 30
    ELSE IF m = 2
         THEN IF (y % 4 = 0 /\ y % 100 # 0) \/ y % 400 = 0 THEN 29 ELSE 28
    ELSE 31

\* datetime.fromisoformat(end) succeeds
ValidIso(end) ==
    /\ Len(end) = 3
    /\ end[1] \in 1..9999
    /\ end[2] \in 1..12
    /\ end[3] \in 1..DaysIn(end[1], end[2])

\* list.sort(key=end, reverse=True): descending and stable
RECURSIVE InsertDesc(_, _)
InsertDesc(sorted, x) ==
    IF Len(sorted) = 0 THEN << x >>
    ELSE IF EndLess(Head(sorted).end, x.end)
         THEN << x >> \o sorted
         ELSE << Head(sorted) >> \o InsertDesc(Tail(sorted), x)

\* the records left in the order of the filing data
Unsorted(s) == s

RECURSIVE SortDesc(_)
SortDesc(s) ==
    IF Len(s) = 0 THEN <<>>
    ELSE InsertDesc(SortDesc(SubSeq(s, 1, Len(s) - 1)), s[Len(s)])

Reverse(s) == [i \in 1..Len(s) |-> s[Len(s) + 1 - i]]

Billion == 1000000000
Million == 1000000

\* abs(val) > limit, for a whole val or one given in thousandths
ExceedsOrEquals(val, limit) ==
    IF val.t = "milli"
    THEN Abs(val.n) \div 1000 >= limit
    ELSE Abs(val.n) >= limit

Exceeds(val, limit) ==
    IF val.t = "milli"
    THEN \/ Abs(val.n) \div 1000 > limit
         \/ Abs(val.n) \div 1000 = limit /\ Abs(val.n) % 1000 > 0
    ELSE Abs(val.n) > limit

\* "Format value": the scaled value, kept in hundredths
ScaleValue(val) ==
    IF val.t = "none" THEN Absent
    ELSE LET den == IF val.t = "milli" THEN 1000 ELSE 1
         IN  IF Exceeds(val, Billion)
             THEN Num(10 * RoundHalfEven(val.n, (Billion \div 10) * den))
             ELSE IF Exceeds(val, Million)
             THEN Num(10 * RoundHalfEven(val.n, (Million \div 10) * den))
             ELSE IF den = 1 THEN Num(100 * val.n)
             ELSE Num(RoundHalfEven(val.n, 10))

NALabel == [kind |-> "N/A", fp |-> "", year |-> 0]

\* "Format period"
PeriodLabel(item, period) ==
    IF item.end = NoEnd THEN NALabel
    ELSE [kind |-> "FY", fp |-> IF period = "annual" THEN "" ELSE item.fp,
          year |-> item.end[1]]

EmptyResult(count) ==
    [kind |-> "return",
     periods |-> [i \in 1..count |-> NALabel],
     values |-> [i \in 1..count |-> Absent]]

FormFilter(period) == IF period = "annual" THEN "10-K" ELSE "10-Q"

\* metric_data["units"].get("USD") or metric_data["units"].get("shares") or []
UnitsOf(metric_data) ==
    LET units == Get(metric_data, "units")
    IN  IF Truthy(Get(units, "USD")) THEN Get(units, "USD").items
        ELSE IF Truthy(Get(units, "shares")) THEN Get(units, "shares").items
        ELSE <<>>

\* filtered.sort(...); selected = filtered[:count]
SelectRecords(metric_data, period, count) ==
    LET filtered == SelectSeq(UnitsOf(metric_data),
                              LAMBDA item : item.form = FormFilter(period))
        sorted == SortDesc(filtered)
    IN  SubSeq(sorted, 1, IF Len(sorted) < count THEN Len(sorted) ELSE count)

\* SECService.extract_metric: the series, or the exception it raises
ExtractMetric(metric_data, period, count) ==
    IF ~Truthy(metric_data) \/ ~Truthy(Get(metric_data, "units"))
    THEN EmptyResult(count)
    ELSE LET selected == SelectRecords(metric_data, period, count)
         IN  IF Len(selected) = 0 THEN EmptyResult(count)
             ELSE IF \E i \in 1..Len(selected) :
                        selected[i].end # NoEnd /\ ~ValidIso(selected[i].end)
                  THEN [kind |-> "raise", periods |-> <<>>, values |-> <<>>]
             ELSE [kind |-> "return",
                   periods |-> Reverse([i \in 1..Len(selected) |->
                                          PeriodLabel(selected[i], period)]),
                   values |-> Reverse([i \in 1..Len(selected) |->
                                          ScaleValue(selected[i].val)])]

\* a or b
OrElse(a, b) == IF Truthy(a) THEN a ELSE b

\* s[-4:]
LastFour(s) == SubSeq(s, IF Len(s) > 4 THEN Len(s) - 3 ELSE 1, Len(s))

\* "Calculate free cash flow": values are in hundredths, round(x, 1) keeps tenths
FcfValue(ocf, cx) ==
    IF ocf.t = "num" /\ cx.t = "num"
    THEN Num(10 * RoundHalfEven(ocf.n - Abs(cx.n), 10))
    ELSE Absent

\* The loop over range(len(op_cash_flow["values"])): the free-cash-flow
\* values, or the IndexError of capex["values"][i] on a shorter capex series
FcfSeries(operating, capex) ==
    IF Len(capex) < Len(operating)
    THEN [kind |-> "raise", exc |-> "IndexError", values |-> <<>>]
    ELSE [kind |-> "return", exc |-> "",
          values |-> [i \in 1..Len(operating) |-> FcfValue(operating[i], capex[i])]]

\* the Capex row: -abs(v), None kept
CapexRow(values) ==
    [i \in 1..Len(values) |->
        IF values[i].t = "num" THEN Num(-Abs(values[i].n)) ELSE Absent]

Table(periods, rows) == [columns |-> periods, rows |-> rows]

\* The part of SECService.get_fundamentals after the facts were fetched:
\* the three tables, or the exception raised on the way.
BuildFundamentals(facts) ==
    LET revenue_data == OrElse(Get(facts, "Revenues"),
                               Get(facts, "RevenueFromContractWithCustomerExcludingAssessedTax"))
        revenues == ExtractMetric(revenue_data, "annual", 3)
        net_income == ExtractMetric(Get(facts, "NetIncomeLoss"), "annual", 3)
        eps == ExtractMetric(Get(facts, "EarningsPerShareDiluted"), "annual", 3)
        shares == ExtractMetric(
            Get(facts, "WeightedAverageNumberOfDilutedSharesOutstanding"), "annual", 3)
        op_cash_flow == ExtractMetric(
            Get(facts, "NetCashProvidedByUsedInOperatingActivities"), "annual", 3)
        capex == ExtractMetric(
            Get(facts, "PaymentsToAcquirePropertyPlantAndEquipment"), "annual", 3)
        q_revenues == ExtractMetric(revenue_data, "quarterly", 5)
        q_net_income == ExtractMetric(Get(facts, "NetIncomeLoss"), "quarterly", 5)
        q_eps == ExtractMetric(Get(facts, "EarningsPerShareDiluted"), "quarterly", 5)
        annual == << revenues, net_income, eps, shares, op_cash_flow, capex >>
        quarters == << q_revenues, q_net_income, q_eps >>
    IN  IF \E i \in 1..Len(annual) : annual[i].kind = "raise"
        THEN [kind |-> "raise", exc |-> "ValueError", val |-> Absent]
        ELSE IF FcfSeries(op_cash_flow.values, capex.values).kind = "raise"
        THEN [kind |-> "raise", exc |-> "IndexError", val |-> Absent]
        ELSE IF \E i \in 1..Len(quarters) : quarters[i].kind = "raise"
        THEN [kind |-> "raise", exc |-> "ValueError", val |-> Absent]
        ELSE [kind |-> "return", exc |-> "", val |-> Obj([
              annual_3y |-> Table(revenues.periods,
                  << revenues.values, net_income.values, eps.values, shares.values >>),
              cashflow_3y |-> Table(op_cash_flow.periods,
                  << op_cash_flow.values,
                     CapexRow(capex.values),
                     FcfSeries(op_cash_flow.values, capex.values).values >>),
              quarterly |-> Table(LastFour(q_revenues.periods),
                  << LastFour(q_revenues.values), LastFour(q_net_income.values),
                     LastFour(q_eps.values) >>)])]

\* ---- the ticker directory and its cache
\* str.upper() on the tickers of the model
Upper(s) ==
    CASE s = "acme" -> "ACME"
      [] s = "beta" -> "BETA"
      [] OTHER -> s

\* str(n) as a tuple of decimal digits, n >= 0
RECURSIVE DigitsOf(_)
DigitsOf(n) == IF n < 10 THEN << n >> ELSE DigitsOf(n \div 10) \o << n % 10 >>

\* s.zfill(w)
RECURSIVE ZFill(_, _)
ZFill(s, w) == IF Len(s) >= w THEN s ELSE ZFill(<< 0 >> \o s, w)

CikWidth == 10
CikOf(entry) == ZFill(DigitsOf(entry.cik_str), CikWidth)

\* cik_cache[ticker] = cik
CachePut(cache, ticker, cik) ==
    [t \in DOMAIN cache \cup {ticker} |-> IF t = ticker THEN cik ELSE cache[t]]

NoCik == <<>>

\* a lookup that never finds the symbol in the cache
CacheHitNever(cache, symbol) == FALSE

\* "Check cache first": if symbol in cik_cache
CacheHit(cache, symbol) == symbol \in DOMAIN cache

\* a scan that stores each identifier under the queried symbol
RECURSIVE ScanDirectoryKeyedBySymbol(_, _, _)
ScanDirectoryKeyedBySymbol(cache, entries, symbol) ==
    IF Len(entries) = 0 THEN [cache |-> cache, cik |-> NoCik]
    ELSE LET ticker == Upper(Head(entries).ticker)
             cik == CikOf(Head(entries))
             put == CachePut(cache, Upper(symbol), cik)
         IN  IF ticker = Upper(symbol)
             THEN [cache |-> put, cik |-> cik]
             ELSE ScanDirectoryKeyedBySymbol(put, Tail(entries), symbol)

\* "Build cache and find symbol": the loop over the directory's entries, which
\* returns at the first entry whose ticker is the symbol
RECURSIVE ScanDirectory(_, _, _)
ScanDirectory(cache, entries, symbol) ==
    IF Len(entries) = 0 THEN [cache |-> cache, cik |-> NoCik]
    ELSE LET ticker == Upper(Head(entries).ticker)
             cik == CikOf(Head(entries))
             put == CachePut(cache, ticker, cik)
         IN  IF ticker = Upper(symbol)
             THEN [cache |-> put, cik |-> cik]
             ELSE ScanDirectory(put, Tail(entries), symbol)

\* what a GET of the filings provider can come back with
SecStatuses == {"200", "429", "404", "500", "neterr"}

\* The body of SECService.get_cik after its GET: every failure is caught and
\* returns None, so the body never raises.
GetCikBody(cache, symbol, status, directory) ==
    IF status = "200"
    THEN ScanDirectory(cache, directory, symbol) @@ [kind |-> "return"]
    ELSE [kind |-> "return", cache |-> cache, cik |-> NoCik]

\* a body that lets the error of a non-200 response out (raise_for_status)
GetCompanyFactsBodyRaising(status, payload) ==
    IF status = "200"
    THEN [kind |-> "return", val |-> payload]
    ELSE [kind |-> "raise", val |-> Absent]

\* The body of SECService.get_company_facts after its GET
GetCompanyFactsBody(status, payload) ==
    IF status = "200"
    THEN [kind |-> "return", val |-> payload]
    ELSE [kind |-> "return", val |-> Absent]

\* stop_after_attempt(2) of get_cik and get_company_facts, retrying on any exception
SecMaxAttempts == 2
SecRetry(n, out) == out.kind = "raise" /\ n < SecMaxAttempts

\* facts_data.get("facts", {}).get("us-gaap", {})
UsGaap(facts_data) ==
    LET facts == IF "facts" \in DOMAIN facts_data.f THEN facts_data.f["facts"] ELSE EmptyObj
    IN  IF "us-gaap" \in DOMAIN facts.f THEN facts.f["us-gaap"] ELSE EmptyObj

\* ---------------------------------------------------- content generation tier
\* The text of a backend reply is a sequence of tokens: prose, a ```json fence,
\* a bare ``` fence, or the text of one JSON value.
Prose == [tk |-> "prose", val |-> Absent]
FenceJson == [tk |-> "fence_json", val |-> Absent]
Fence == [tk |-> "fence", val |-> Absent]
JsonText(v) == [tk |-> "json", val |-> v]

\* the html of a fallback section, which names the company and the symbol
FallbackHtml(company_name, symbol) ==
    [t |-> "str", s |-> "fallback", company |-> company_name, symbol |-> symbol]

\* _fallback_sections, and the fallback list of the OpenAI generator
FallbackSections(company_name, symbol) ==
    List(<< Obj([id |-> Str("tl_dr"), title |-> Str("overview"),
                 html |-> FallbackHtml(company_name, symbol)]) >>)

\* the tokens before the first token whose kind is in seps
RECURSIVE Before(_, _)
Before(tokens, seps) ==
    IF Len(tokens) = 0 \/ Head(tokens).tk \in seps THEN <<>>
    ELSE << Head(tokens) >> \o Before(Tail(tokens), seps)

\* the tokens after the first token whose kind is in seps
RECURSIVE After(_, _)
After(tokens, seps) ==
    IF Len(tokens) = 0 THEN <<>>
    ELSE IF Head(tokens).tk \in seps THEN Tail(tokens)
    ELSE After(Tail(tokens), seps)

JsonFences == {"fence_json"}
\* "```" is a substring of "```json" too
AnyFences == {"fence", "fence_json"}
Has(tokens, seps) == \E i \in 1..Len(tokens) : tokens[i].tk \in seps

\* content_text.split("```json")[1].split("```")[0], or
\* content_text.split("```")[1].split("```")[0], or the text as it is
StripFences(tokens) ==
    IF Has(tokens, JsonFences)
    THEN Before(Before(After(tokens, JsonFences), JsonFences), AnyFences)
    ELSE IF Has(tokens, AnyFences)
    THEN Before(After(tokens, AnyFences), AnyFences)
    ELSE tokens

\* json.loads(text.strip()): the value, or a JSONDecodeError
JsonLoads(tokens) ==
    IF Len(tokens) = 1 /\ tokens[1].tk = "json"
    THEN [ok |-> TRUE, val |-> tokens[1].val]
    ELSE [ok |-> FALSE, val |-> Absent]

\* content.get("sections", []): an AttributeError unless content is an object
SectionsField(content) ==
    IF ~IsObj(content) THEN [ok |-> FALSE, val |-> Absent]
    ELSE IF "sections" \in DOMAIN content.f
         THEN [ok |-> TRUE, val |-> content.f["sections"]]
         ELSE [ok |-> TRUE, val |-> EmptyList]

\* What the try block of generate_stock_sections does with the backend's
\* reply: the sections it returns, or the exception raised inside it. A reply
\* is the exception of the remote call, a response without a text, or a text.
TryBody(provider, reply) ==
    IF reply.kind = "raise" THEN [kind |-> "raise", exc |-> "APIError", val |-> Absent]
    ELSE IF reply.kind = "empty"
    THEN [kind |-> "raise",
          exc |-> IF provider = "claude" THEN "IndexError" ELSE "TypeError",
          val |-> Absent]
    ELSE LET text == IF provider = "claude" THEN StripFences(reply.tokens)
                     ELSE reply.tokens
             parsed == JsonLoads(text)
         IN  IF ~parsed.ok
             THEN [kind |-> "raise", exc |-> "JSONDecodeError", val |-> Absent]
             ELSE IF ~SectionsField(parsed.val).ok
             THEN [kind |-> "raise", exc |-> "AttributeError", val |-> Absent]
             ELSE [kind |-> "return", exc |-> "", val |-> SectionsField(parsed.val).val]

\* handlers that catch the JSON decoding error only
CaughtDecodeOnly(exc) == exc = "JSONDecodeError"

\* except json.JSONDecodeError ... except Exception: every exception is caught
Caught(exc) == TRUE

\* ClaudeContentGenerator.generate_stock_sections on the backend's reply
ClaudeSections(reply, company_name, symbol) ==
    LET out == TryBody("claude", reply)
    IN  IF out.kind = "return" THEN out.val
        ELSE IF Caught(out.exc) THEN FallbackSections(company_name, symbol)
        ELSE Propagated(out.exc)

\* ContentGeneratorService.generate_stock_sections on the backend's reply
OpenAiSections(reply, company_name, symbol) ==
    LET out == TryBody("openai", reply)
    IN  IF out.kind = "return" THEN out.val
        ELSE IF Caught(out.exc) THEN FallbackSections(company_name, symbol)
        ELSE Propagated(out.exc)

GenerateStockSections(provider, reply, company_name, symbol) ==
    IF provider = "claude" THEN ClaudeSections(reply, company_name, symbol)
    ELSE OpenAiSections(reply, company_name, symbol)

\* Section(**s) validates: s is a mapping with string id, title and html
ValidSection(s) ==
    /\ IsObj(s)
    /\ \A k \in {"id", "title", "html"} : k \in DOMAIN s.f /\ s.f[k].t = "str"

\* [Section(**s) for s in ai_sections]: the sections, or the exception
BuildSections(ai_sections) ==
    IF IsList(ai_sections)
    THEN IF \A i \in 1..Len(ai_sections.items) : ValidSection(ai_sections.items[i])
         THEN [kind |-> "return", exc |-> "", items |-> ai_sections.items]
         ELSE [kind |-> "raise", exc |-> "ValidationError", items |-> <<>>]
    ELSE IF ai_sections = EmptyObj
    THEN [kind |-> "return", exc |-> "", items |-> <<>>]
    ELSE [kind |-> "raise", exc |-> "TypeError", items |-> <<>>]

\* the static section used when no provider is configured
StaticSections(company_name, symbol) ==
    << Obj([id |-> Str("overview"), title |-> Str("overview"),
            html |-> FallbackHtml(company_name, symbol)]) >>

\* JSON values a backend may send as its answer
GoodSections ==
    Obj([sections |-> List(<< Obj([id |-> Str("tl_dr"), title |-> Str("t"),
                                   html |-> Str("<p>..</p>")]) >>)])
SectionsMissingId ==
    Obj([sections |-> List(<< Obj([title |-> Str("t"), html |-> Str("<p>..</p>")]) >>)])
SectionsNull == Obj([sections |-> Absent])
NotAnObject == EmptyList

\* the replies of the generative backend
Replies ==
    { [kind |-> "raise", tokens |-> <<>>],
      [kind |-> "text", tokens |-> << JsonText(GoodSections) >>],
      [kind |-> "text", tokens |-> << FenceJson, JsonText(GoodSections), Fence >>],
      [kind |-> "text", tokens |-> << Prose, JsonText(GoodSections) >>],
      [kind |-> "text", tokens |-> << Prose >>],
      [kind |-> "text", tokens |-> << JsonText(SectionsMissingId) >>],
      [kind |-> "text", tokens |-> << JsonText(EmptyObj) >>],
      [kind |-> "text", tokens |-> << JsonText(SectionsNull) >>],
      [kind |-> "text", tokens |-> << JsonText(NotAnObject) >>] }

\* ---------------------------------------------------------- the filings data
MaxRecords == 3

AnnualRecord(i) ==
    [form |-> "10-K", end |-> << 2020 + i, 12, 31 >>, val |-> Num(1000 * i), fp |-> "FY"]
QuarterRecord(i) ==
    [form |-> "10-Q", end |-> << 2022 + ((i - 1) \div 4), 3 * (((i - 1) % 4) + 1), 28 >>,
     val |-> Num(100 * i), fp |-> "Q"]

\* a metric with n annual and n quarterly records
MetricOf(n) ==
    Obj([units |-> Obj([USD |-> List([i \in 1..n |-> AnnualRecord(i)]
                                     \o [i \in 1..n |-> QuarterRecord(i)])])])

FactsData(usgaap) == Obj([facts |-> Obj([k \in {"us-gaap"} |-> Obj(usgaap)])])

\* a fact repository with n records per metric, but ocf and capex records for
\* operating cash flow and capex
Repository(n, ocf, capex) ==
    FactsData([Revenues |-> MetricOf(n),
               NetIncomeLoss |-> MetricOf(n),
               EarningsPerShareDiluted |-> MetricOf(n),
               NetCashProvidedByUsedInOperatingActivities |-> MetricOf(ocf),
               PaymentsToAcquirePropertyPlantAndEquipment |-> MetricOf(capex)])

\* the company-facts payloads a review may receive
ReviewFacts ==
    { Repository(MaxRecords, a, b) : a, b \in (MaxRecords - 1)..MaxRecords }
    \cup { EmptyObj }

\* the ticker directories the filings provider may serve
Directories ==
    { << [ticker |-> "ACME", cik_str |-> 320193] >>,
      << [ticker |-> "beta", cik_str |-> 42], [ticker |-> "ACME", cik_str |-> 320193] >>,
      << [ticker |-> "beta", cik_str |-> 42] >> }

Symbols == {"ACME"}
EmptyCache == [t \in {} |-> NoCik]
\* the cache as an earlier review of the symbol left it
WarmCache == ScanDirectory(EmptyCache, << [ticker |-> "ACME", cik_str |-> 320193] >>, "ACME").cache

\* ------------------------------------------------------- review orchestrator
VARIABLES
    keys,        \* which credentials the environment holds
    symbol,      \* the symbol of the review
    pc,          \* where generate_review stands
    clients,     \* the HTTP clients of the two gateways: "none", "open", "closed"
    calls,       \* the four _request coroutines of get_all_stock_data
    data,        \* the dict get_all_stock_data returned
    secAttempt,  \* the attempt number of the running filing-store call
    cik_cache,   \* the process-wide ticker -> CIK cache
    fundamentals,\* what get_fundamentals returned
    widgets,     \* the ids of the widgets built so far
    sections,    \* the sections built
    pending,     \* the exception propagating out of the try block, "" if none
    sent,        \* what this review has sent upstream: the market-data calls
                 \* started, the GETs / content requests issued, the
                 \* content providers contacted, and the status of the
                 \* last filing-store response
    outcome,     \* what the caller of generate_review gets
    arg,         \* the arguments of a function called on its own
    ret          \* what that call returned or raised

vars == << keys, symbol, pc, clients, calls, data, secAttempt, cik_cache,
           fundamentals, widgets, sections, pending, sent, outcome, arg, ret >>

review == << keys, symbol, pc, clients, calls, data, secAttempt, cik_cache,
             fundamentals, widgets, sections, pending, sent, outcome >>
harness == << arg, ret >>
NoCall == [fn |-> "none"]
NoReturn == [kind |-> "none"]

NoData == [c \in Calls |-> Absent]
NoSent ==
    [market |-> 0, directory |-> 0, facts |-> 0, content |-> 0, contacted |-> {},
     status |-> ""]
NoOutcome == [kind |-> "none", code |-> "", retryable |-> FALSE]
NoClients == [finnhub |-> "none", sec |-> "none"]

\* a selection that prefers OpenAI
ProviderOpenAiFirst(k) ==
    IF k.openai THEN "openai" ELSE IF k.anthropic THEN "claude" ELSE "none"

\* "Prefer Claude over OpenAI": the provider generate_review selects
Provider(k) ==
    IF k.anthropic THEN "claude" ELSE IF k.openai THEN "openai" ELSE "none"

\* The response the boundary layer sends for an exception leaving generate_review
\* (http_exception_handler / general_exception_handler of main.py)
ErrorOf(exc) ==
    CASE exc = "MISCONFIGURED" -> [kind |-> "error", code |-> exc, retryable |-> FALSE]
      [] exc = "UNKNOWN_SYMBOL" -> [kind |-> "error", code |-> exc, retryable |-> FALSE]
      [] exc = "FINNHUB_UNAUTHORIZED" -> [kind |-> "error", code |-> exc, retryable |-> FALSE]
      [] exc = "UPSTREAM_TIMEOUT" -> [kind |-> "error", code |-> exc, retryable |-> TRUE]
      [] OTHER -> [kind |-> "error", code |-> "INTERNAL_ERROR", retryable |-> TRUE]

ResultOutcome == [kind |-> "result", code |-> "", retryable |-> FALSE]

\* the credentials the environment may hold (KITCHEN_*_API_KEY)
KeyConfigs ==
    { [finnhub |-> FALSE, anthropic |-> TRUE, openai |-> FALSE],
      [finnhub |-> TRUE, anthropic |-> FALSE, openai |-> FALSE],
      [finnhub |-> TRUE, anthropic |-> FALSE, openai |-> TRUE],
      [finnhub |-> TRUE, anthropic |-> TRUE, openai |-> TRUE] }

Init ==
    /\ keys \in KeyConfigs
    /\ symbol \in Symbols
    /\ pc = "start"
    /\ clients = NoClients
    /\ calls = [c \in Calls |-> IdleCall]
    /\ data = NoData
    /\ secAttempt = 0
    /\ cik_cache \in {EmptyCache, WarmCache}
    /\ fundamentals = Absent
    /\ widgets = <<>>
    /\ sections = <<>>
    /\ pending = ""
    /\ sent = NoSent
    /\ outcome = NoOutcome
    /\ arg = NoCall
    /\ ret = NoReturn

BaseWidgets == << "kpis", "tv_chart", "analysts" >>
\* the three tables with the cash-flow table first
TableWidgetsSwapped ==
    << "fundamentals_cashflow_3y", "fundamentals_annual_3y", "fundamentals_quarterly" >>

TableWidgets ==
    << "fundamentals_annual_3y", "fundamentals_cashflow_3y", "fundamentals_quarterly" >>
NoticeWidgets == << "fundamentals_notice" >>

CompanyName == Get(data["profile"], "name")
Analyst == CalculateAnalystData(data["recommendations"], data["price_target"])
Kpi == KpiData(data["quote"], Analyst)

\* generate_review leaves the try block with exception exc
Raise(exc) ==
    /\ pending' = exc
    /\ pc' = "close_finnhub"

\* generate_review from the widget list on, once get_fundamentals returned fund
\* and with the upstream requests counted in sentNow: up to the content
\* request, or to the return statement when no provider is configured
AfterFundamentals(fund, sentNow) ==
    LET built == BaseWidgets \o (IF Truthy(fund) THEN TableWidgets ELSE NoticeWidgets)
    IN  /\ fundamentals' = fund
        /\ pending' = ""
        /\ IF Provider(keys) # "none"
           THEN /\ widgets' = built
                /\ sections' = <<>>
                /\ sent' = [sentNow EXCEPT !.content = @ + 1,
                                            !.contacted = @ \cup {Provider(keys)}]
                /\ pc' = "content"
           ELSE /\ widgets' = built \o << "cta" >>
                /\ sections' = StaticSections(CompanyName, symbol)
                /\ sent' = sentNow
                /\ pc' = "close_finnhub"

\* a configuration check that lets a missing key through
MisconfiguredNever(k) == FALSE

\* "Validate configuration": if not self.finnhub_key
Misconfigured(k) == ~k.finnhub

\* generate_review up to its first await: the configuration check, the two
\* clients and the content generator, whose constructor may raise
StartReview ==
    /\ pc = "start"
    /\ UNCHANGED << arg, ret, keys, symbol, data, secAttempt, cik_cache, fundamentals,
                    widgets, sections, pending >>
    /\ IF Misconfigured(keys)
       THEN /\ outcome' = ErrorOf("MISCONFIGURED")
            /\ pc' = "done"
            /\ UNCHANGED << clients, calls, sent >>
       ELSE \E ctorRaises \in IF Provider(keys) = "none" THEN {FALSE} ELSE BOOLEAN :
            /\ clients' = [finnhub |-> "open", sec |-> "open"]
            /\ IF ctorRaises
               THEN /\ outcome' = ErrorOf("ConstructorError")
                    /\ pc' = "done"
                    /\ UNCHANGED << calls, sent >>
               ELSE /\ outcome' = outcome
                    /\ pc' = "fetch"
                    /\ calls' = [c \in Calls |-> StartedCall]
                    /\ sent' = [sent EXCEPT !.market = Cardinality(Calls)]

\* one attempt of one of the four market-data calls: the GET and its response
RequestAttempt(c) ==
    /\ pc = "fetch"
    /\ calls[c].st = "running"
    /\ \E status \in Statuses :
       \E payload \in IF status = "200" THEN Payloads(c) ELSE {Absent} :
          calls' = [calls EXCEPT
                      ![c] = AfterAttempt(calls[c].attempt + 1, RequestBody(status, payload))]
    /\ UNCHANGED << arg, ret, keys, symbol, pc, clients, data, secAttempt, cik_cache,
                    fundamentals, widgets, sections, pending, sent, outcome >>

\* asyncio.gather returns once the four calls ended; generate_review goes on to
\* the symbol check and into get_fundamentals, up to the first filing-store GET
GatherReturn ==
    /\ pc = "fetch"
    /\ \A c \in Calls : calls[c].st \in {"returned", "raised"}
    /\ LET got == [c \in Calls |-> Slot(c, calls[c])]
       IN  /\ data' = got
           /\ calls' = [c \in Calls |-> IdleCall]
           /\ IF ~Truthy(got["profile"]) \/ ~Truthy(Get(got["profile"], "name"))
              THEN /\ Raise("UNKNOWN_SYMBOL")
                   /\ UNCHANGED << secAttempt, sent >>
              ELSE /\ pending' = ""
                   /\ secAttempt' = 1
                   /\ IF CacheHit(cik_cache, symbol)
                      THEN /\ pc' = "facts_get"
                           /\ sent' = [sent EXCEPT !.facts = @ + 1]
                      ELSE /\ pc' = "cik_get"
                           /\ sent' = [sent EXCEPT !.directory = @ + 1]
    /\ UNCHANGED << arg, ret, keys, symbol, clients, cik_cache, fundamentals, widgets,
                    sections, outcome >>

\* the response to get_cik's GET of the ticker directory
TickersResponse ==
    /\ pc = "cik_get"
    /\ \E status \in SecStatuses :
       \E directory \in IF status = "200" THEN Directories ELSE {<<>>} :
          LET out == GetCikBody(cik_cache, symbol, status, directory)
          IN  IF SecRetry(secAttempt, out)
              THEN /\ secAttempt' = secAttempt + 1
                   /\ sent' = [sent EXCEPT !.directory = @ + 1, !.status = status]
                   /\ UNCHANGED << pc, cik_cache, fundamentals, widgets, sections, pending >>
              ELSE IF out.kind = "raise"
              THEN /\ Raise("RetryError")
                   /\ sent' = [sent EXCEPT !.status = status]
                   /\ UNCHANGED << secAttempt, cik_cache, fundamentals,
                                   widgets, sections >>
              ELSE /\ cik_cache' = out.cache
                   /\ IF out.cik # NoCik
                      THEN /\ pc' = "facts_get"
                           /\ secAttempt' = 1
                           /\ sent' = [sent EXCEPT !.facts = @ + 1, !.status = status]
                           /\ UNCHANGED << fundamentals, widgets, sections, pending >>
                      ELSE /\ secAttempt' = 0
                           /\ AfterFundamentals(Absent, [sent EXCEPT !.status = status])
    /\ UNCHANGED << arg, ret, keys, symbol, clients, calls, data, outcome >>

\* the response to get_company_facts' GET, and the rest of get_fundamentals
FactsResponse ==
    /\ pc = "facts_get"
    /\ \E status \in SecStatuses :
       \E payload \in IF status = "200" THEN ReviewFacts ELSE {Absent} :
          LET out == GetCompanyFactsBody(status, payload)
          IN  IF SecRetry(secAttempt, out)
              THEN /\ secAttempt' = secAttempt + 1
                   /\ sent' = [sent EXCEPT !.facts = @ + 1, !.status = status]
                   /\ UNCHANGED << pc, fundamentals, widgets, sections, pending >>
              ELSE IF out.kind = "raise"
              THEN /\ Raise("RetryError")
                   /\ sent' = [sent EXCEPT !.status = status]
                   /\ UNCHANGED << secAttempt, fundamentals, widgets, sections >>
              ELSE /\ secAttempt' = 0
                   /\ IF ~Truthy(out.val)
                      THEN AfterFundamentals(Absent, [sent EXCEPT !.status = status])
                      ELSE LET built == BuildFundamentals(UsGaap(out.val))
                           IN  IF built.kind = "raise"
                               THEN /\ Raise(built.exc)
                                    /\ sent' = [sent EXCEPT !.status = status]
                                    /\ UNCHANGED << fundamentals, widgets, sections >>
                               ELSE AfterFundamentals(built.val,
                                                      [sent EXCEPT !.status = status])
    /\ UNCHANGED << arg, ret, keys, symbol, clients, calls, data, cik_cache, outcome >>

\* the backend's reply to the content request, the Section objects, the
\* insights, the call-to-action and the result, up to the finally block
ContentResponse ==
    /\ pc = "content"
    /\ \E reply \in Replies :
          LET ai_sections == GenerateStockSections(Provider(keys), reply, CompanyName, symbol)
              built == BuildSections(ai_sections)
              insights == GenerateInsights(Provider(keys), Kpi, Analyst)
          IN  IF built.kind = "raise"
              THEN Raise(built.exc) /\ UNCHANGED << widgets, sections >>
              ELSE IF insights.kind = "raise"
              THEN Raise(insights.exc) /\ UNCHANGED << widgets, sections >>
              ELSE /\ sections' = built.items
                   /\ widgets' = widgets
                        \o (IF Len(insights.items) > 0 THEN << "insights" >> ELSE <<>>)
                        \o << "cta" >>
                   /\ pending' = ""
                   /\ pc' = "close_finnhub"
    /\ UNCHANGED << arg, ret, keys, symbol, clients, calls, data, secAttempt, cik_cache,
                    fundamentals, sent, outcome >>

\* finally: await finnhub.close(), which may raise
CloseFinnhub ==
    /\ pc = "close_finnhub"
    /\ \E raises \in BOOLEAN :
          IF raises
          THEN /\ outcome' = ErrorOf("CloseError")
               /\ pc' = "done"
               /\ UNCHANGED clients
          ELSE /\ clients' = [clients EXCEPT !.finnhub = "closed"]
               /\ pc' = "close_sec"
               /\ UNCHANGED outcome
    /\ UNCHANGED << arg, ret, keys, symbol, calls, data, secAttempt, cik_cache, fundamentals,
                    widgets, sections, pending, sent >>

\* finally: await sec.close(), which may raise; then generate_review ends
CloseSec ==
    /\ pc = "close_sec"
    /\ \E raises \in BOOLEAN :
          IF raises
          THEN /\ outcome' = ErrorOf("CloseError")
               /\ UNCHANGED clients
          ELSE /\ clients' = [clients EXCEPT !.sec = "closed"]
               /\ outcome' = IF pending # "" THEN ErrorOf(pending) ELSE ResultOutcome
    /\ pc' = "done"
    /\ UNCHANGED << arg, ret, keys, symbol, calls, data, secAttempt, cik_cache, fundamentals,
                    widgets, sections, pending, sent >>

Next ==
    \/ StartReview
    \/ \E c \in Calls : RequestAttempt(c)
    \/ GatherReturn
    \/ TickersResponse
    \/ FactsResponse
    \/ ContentResponse
    \/ CloseFinnhub
    \/ CloseSec

Spec == Init /\ [][Next]_vars

\* ------------------------------------------- extract_metric called on its own
MaxCount == 5

\* the reported facts a metric of the model is made of
FactChoices ==
    { [form |-> "10-K", end |-> << 2021, 12, 31 >>, val |-> Num(950), fp |-> "FY"],
      [form |-> "10-K", end |-> << 2022, 12, 31 >>, val |-> Absent, fp |-> "FY"],
      [form |-> "10-K", end |-> << 2023, 12, 31 >>, val |-> Num(45000000), fp |-> "FY"],
      [form |-> "10-Q", end |-> << 2023, 3, 31 >>, val |-> Num(1500000000), fp |-> "Q1"],
      [form |-> "10-K", end |-> NoEnd, val |-> Num(-200), fp |-> "FY"],
      [form |-> "10-K", end |-> << 2023, 13, 45 >>, val |-> Num(7), fp |-> "FY"] }

\* all sequences over S of length at most n
RECURSIVE SeqsUpTo(_, _)
SeqsUpTo(S, n) ==
    IF n = 0 THEN { <<>> }
    ELSE LET shorter == SeqsUpTo(S, n - 1)
         IN  shorter \cup { Append(s, x) : s \in shorter, x \in S }

\* the metric_data arguments: None, no units, empty units, and unit lists
MetricInputs ==
    { Absent, EmptyObj, Obj([units |-> EmptyObj]) }
    \cup { Obj([units |-> Obj([USD |-> List(recs)])]) : recs \in SeqsUpTo(FactChoices, MaxRecords) }
    \cup { Obj([units |-> Obj([shares |-> List(<< r >>)])]) : r \in FactChoices }

InitExtract ==
    /\ keys \in {[finnhub |-> TRUE, anthropic |-> FALSE, openai |-> FALSE]}
    /\ symbol \in Symbols
    /\ pc = "start"
    /\ clients = NoClients
    /\ calls = [c \in Calls |-> IdleCall]
    /\ data = NoData
    /\ secAttempt = 0
    /\ cik_cache = EmptyCache
    /\ fundamentals = Absent
    /\ widgets = <<>>
    /\ sections = <<>>
    /\ pending = ""
    /\ sent = NoSent
    /\ outcome = NoOutcome
    /\ \E md \in MetricInputs, period \in {"annual", "quarterly"}, count \in 1..MaxCount :
          arg = [fn |-> "extract_metric", metric_data |-> md, period |-> period,
                 count |-> count]
    /\ ret = NoReturn

\* the call extract_metric(metric_data, period, count)
ExtractCall ==
    /\ arg.fn = "extract_metric"
    /\ ret = NoReturn
    /\ ret' = ExtractMetric(arg.metric_data, arg.period, arg.count)
    /\ UNCHANGED << arg, review >>

NextExtract == ExtractCall

SpecExtract == InitExtract /\ [][NextExtract]_vars

\* ==================================================================== claims
Ended(call) == call.st \in {"returned", "raised"}
GatherStep == pc = "fetch" /\ pc' # "fetch"
FundamentalsPcs == {"cik_get", "facts_get"}
IsPrefix(p, s) == Len(s) >= Len(p) /\ SubSeq(s, 1, Len(p)) = p
ProfileNamed(d) == Truthy(d["profile"]) /\ Truthy(Get(d["profile"], "name"))

\* C1: failures in the fundamentals path never fail the request: whenever
\* get_fundamentals ends, no exception leaves it, and the widget list built
\* holds either the three tables or the single notice.
C1_FundamentalsNeverFail ==
    [][ (pc \in FundamentalsPcs /\ pc' \notin FundamentalsPcs)
        => /\ pending' = ""
           /\ \/ IsPrefix(BaseWidgets \o TableWidgets, widgets')
              \/ /\ IsPrefix(BaseWidgets \o NoticeWidgets, widgets')
                 /\ \A i \in 5..Len(widgets') : widgets'[i] \notin
                        {TableWidgets[1], TableWidgets[2], TableWidgets[3]} ]_vars

\* C2: failures in the content-generation path never fail the request: whatever
\* the backend replies, no exception of generate_stock_sections, of the Section
\* constructor or of generate_insights leaves the try block.
C2_ContentNeverFails ==
    [][ pc = "content" => (pending' = "" /\ Len(widgets') > Len(widgets)) ]_vars

\* C3: a 401 or a timeout of any of the four market-data calls makes
\* generate_review fail with that error kind (FINNHUB_UNAUTHORIZED,
\* UPSTREAM_TIMEOUT), not return a result and not report another error.
C3_FatalErrorsEscalate ==
    [][ (GatherStep /\ \E c \in Calls :
              calls[c].exc \in {"FINNHUB_UNAUTHORIZED", "UPSTREAM_TIMEOUT"})
        => /\ pending' \in {"FINNHUB_UNAUTHORIZED", "UPSTREAM_TIMEOUT"}
           /\ \E c \in Calls : calls[c].exc = pending'
           /\ ErrorOf(pending').retryable = (pending' = "UPSTREAM_TIMEOUT") ]_vars

\* C4: a market-data call that got 429 on all three attempts makes
\* generate_review fail with an error marked retryable.
C4_RateLimitSurfaced ==
    [][ (GatherStep /\ \E c \in Calls : calls[c].exc = "RetryError")
        => (pending' # "" /\ ErrorOf(pending').retryable) ]_vars

\* C5: retries are local and bounded: a market-data call issues at most 3 GETs,
\* makes a further attempt only after a 429 on that call, ends on a 401, a
\* timeout or any other non-200, returns the response of a 200; and the
\* directory and the company facts are each requested at most once per review.
C5_RetriesBounded ==
    /\ \A c \in Calls :
          /\ calls[c].st = "running"
                => (calls[c].attempt < 3 /\ (calls[c].attempt > 0 => calls[c].status = "429"))
          /\ calls[c].status \in {"401", "timeout", "500", "neterr"} => Ended(calls[c])
          /\ calls[c].status = "200"
                => (calls[c].st = "returned" /\ calls[c].val \in Payloads(c))
          /\ calls[c].exc = "RetryError" => calls[c].status = "429"
    /\ sent.directory <= 1
    /\ sent.facts <= 1

\* C5 witness: one call used up its three attempts while another, after two
\* 429 responses, is about to make its third
C5_Witness ==
    \E c, d \in Calls :
        /\ calls[c].exc = "RetryError"
        /\ calls[d].st = "running" /\ calls[d].attempt = 2

\* C6: get_all_stock_data returns only once the four calls ended, with the
\* slots typed object/object/list/object, a failed slot defaulted to empty and
\* a successful one holding its call's response; and while the calls run, a
\* step of one call leaves the others, and every ended call, as they are.
C6_FetchAllSlots ==
    [][ /\ GatherStep =>
            /\ \A c \in Calls : Ended(calls[c])
            /\ IsObj(data'["quote"]) /\ IsObj(data'["profile"])
            /\ IsList(data'["recommendations"]) /\ IsObj(data'["price_target"])
            /\ \A c \in Calls :
                  IF calls[c].status = "200"
                  THEN data'[c] = calls[c].val
                  ELSE data'[c] = SlotDefault(c)
        /\ (pc = "fetch" /\ pc' = "fetch") =>
            /\ \A c \in Calls : Ended(calls[c]) => calls'[c] = calls[c]
            /\ Cardinality({c \in Calls : calls'[c] # calls[c]}) <= 1 ]_vars

\* C6 witness: a result whose quote slot is the default while the three other
\* slots hold their calls' responses
C6_Witness ==
    /\ pc \notin {"start", "fetch"}
    /\ data["quote"] = EmptyObj
    /\ Truthy(data["profile"]) /\ Truthy(data["recommendations"])
    /\ Truthy(data["price_target"])

\* C7: without a market-data credential generate_review fails with
\* MISCONFIGURED (not retryable) before any upstream request; with a profile
\* that is empty or has no name it fails with UNKNOWN_SYMBOL (not retryable)
\* and never starts the fundamentals fetch or the content generation.
C7_FatalValidationStops ==
    /\ ~keys.finnhub =>
          /\ sent = NoSent
          /\ clients = NoClients
          /\ pc = "done" => outcome = [kind |-> "error", code |-> "MISCONFIGURED",
                                       retryable |-> FALSE]
    /\ (data # NoData /\ ~ProfileNamed(data)) =>
          /\ pending = "UNKNOWN_SYMBOL"
          /\ sent.directory = 0 /\ sent.facts = 0 /\ sent.content = 0
          /\ (pc = "done" /\ clients.sec = "closed")
                => outcome = [kind |-> "error", code |-> "UNKNOWN_SYMBOL",
                              retryable |-> FALSE]

\* C7 witness: a review that ended with UNKNOWN_SYMBOL
C7_Witness ==
    /\ pc = "done"
    /\ outcome.code = "UNKNOWN_SYMBOL"
    /\ data["profile"] = EmptyObj

\* C8: on every path on which the two clients were created, both are closed
\* when generate_review ends.
C8_ClientsReleased ==
    (pc = "done" /\ clients # NoClients) => clients = [finnhub |-> "closed", sec |-> "closed"]

\* C9: extract_metric returns periods and values of equal length, the
\* requested count.
C9_SeriesLength ==
    (arg.fn = "extract_metric" /\ ret.kind = "return")
        => (Len(ret.periods) = arg.count /\ Len(ret.values) = arg.count)

\* C10: extract_metric never raises; an absent metric, a metric without units
\* or without a record of the requested form yields count placeholders.
C10_ExtractNeverRaises ==
    (arg.fn = "extract_metric" /\ ret # NoReturn)
        => /\ ret.kind = "return"
           /\ (~Truthy(arg.metric_data)
               \/ ~Truthy(Get(arg.metric_data, "units"))
               \/ Len(SelectRecords(arg.metric_data, arg.period, arg.count)) = 0)
                 => ret = EmptyResult(arg.count)

\* ------------------------------------ calculate_analyst_data called on its own
\* the review variables while a function is called on its own
IdleReview ==
    /\ keys = [finnhub |-> TRUE, anthropic |-> FALSE, openai |-> FALSE]
    /\ symbol = "ACME"
    /\ pc = "start"
    /\ clients = NoClients
    /\ calls = [c \in Calls |-> IdleCall]
    /\ data = NoData
    /\ secAttempt = 0
    /\ cik_cache = EmptyCache
    /\ fundamentals = Absent
    /\ widgets = <<>>
    /\ sections = <<>>
    /\ pending = ""
    /\ sent = NoSent
    /\ outcome = NoOutcome

MaxVotes == 2

Votes(a, b, c, d, e) ==
    Obj([strongBuy |-> Num(a), buy |-> Num(b), hold |-> Num(c), sell |-> Num(d),
         strongSell |-> Num(e)])

\* the recommendation records of the provider: every distribution of up to
\* MaxVotes votes per rating, a large panel whose mean is just under 4.5, and
\* a record with a missing and a null count
TrendRecords ==
    { Votes(a, b, c, d, e) : a, b, c, d, e \in 0..MaxVotes }
    \cup { Votes(50, 51, 0, 0, 0),
           Obj([strongBuy |-> Absent, buy |-> Num(3), hold |-> Num(1)]) }

\* the recommendations argument: no trend, one record, or a latest record
\* followed by an older one
RecommendationInputs ==
    { EmptyList }
    \cup { List(<< r >>) : r \in TrendRecords }
    \cup { List(<< Votes(0, 0, 0, 0, 0), Votes(1, 1, 1, 1, 1) >>),
           List(<< Votes(0, 1, 0, 1, 0), Votes(2, 2, 2, 2, 2) >>) }

\* the price_target argument
TargetInputs ==
    PriceTargetPayloads
    \cup { EmptyObj,
           Obj([targetMean |-> Num(0), targetMedian |-> Num(0),
                targetHigh |-> Num(0), targetLow |-> Num(0)]) }

InitAnalyst ==
    /\ IdleReview
    /\ \E recs \in RecommendationInputs, pt \in TargetInputs :
          arg = [fn |-> "calculate_analyst_data", recommendations |-> recs,
                 price_target |-> pt]
    /\ ret = NoReturn

\* the call calculate_analyst_data(recommendations, price_target, current_price)
AnalystCall ==
    /\ arg.fn = "calculate_analyst_data"
    /\ ret = NoReturn
    /\ ret' = [kind |-> "return",
               val |-> CalculateAnalystData(arg.recommendations, arg.price_target)]
    /\ UNCHANGED << arg, review >>

NextAnalyst == AnalystCall

SpecAnalyst == InitAnalyst /\ [][NextAnalyst]_vars

\* ---- C11
AnalystReturned == arg.fn = "calculate_analyst_data" /\ ret # NoReturn

\* the count of rating k in the latest record of the argument (0 without one)
ArgVotes(k) ==
    IF Len(arg.recommendations.items) = 0 THEN 0
    ELSE LET x == Get(arg.recommendations.items[1], k)
         IN  IF x.t = "num" THEN x.n ELSE 0
ArgTotal ==
    ArgVotes("strongBuy") + ArgVotes("buy") + ArgVotes("hold") + ArgVotes("sell")
    + ArgVotes("strongSell")
ArgWeighted ==
    5 * ArgVotes("strongBuy") + 4 * ArgVotes("buy") + 3 * ArgVotes("hold")
    + 2 * ArgVotes("sell") + ArgVotes("strongSell")

\* the label of a score given in hundredths
LabelOfHundredths(s) ==
    IF s >= 450 THEN "strong_buy"
    ELSE IF s >= 350 THEN "buy"
    ELSE IF s >= 250 THEN "hold"
    ELSE IF s >= 150 THEN "sell"
    ELSE "strong_sell"

\* C11 as stated: analysts_count is the sum of the five counts, score and label
\* are absent exactly when the sum is 0, and otherwise the returned score is
\* the quotient weighted/total itself, lies in [1,5], and the label is the one
\* of the band the returned score lies in.
C11_ScoreIsQuotient ==
    AnalystReturned =>
        /\ ret.val.analysts_count = ArgTotal
        /\ (ret.val.score_1_5 = Absent) <=> (ArgTotal = 0)
        /\ (ret.val.label = Absent) <=> (ArgTotal = 0)
        /\ ArgTotal > 0 =>
              /\ ret.val.score_1_5.n * ArgTotal = 100 * ArgWeighted
              /\ ret.val.score_1_5.n \in 100..500
              /\ ret.val.label = Str(LabelOfHundredths(ret.val.score_1_5.n))

\* C11, amended: analysts_count is the sum of the five counts, score and label
\* are absent exactly when the sum is 0; otherwise the returned score is the
\* quotient weighted/total rounded to two decimals (within 0.005 of it) and
\* lies in [1,5], and the label is decided on the unrounded quotient: the
\* strongest positive one iff weighted/total >= 4.5, the next iff >= 3.5, hold
\* iff >= 2.5, sell iff >= 1.5, the strongest negative one below 1.5.
C11_ScoreRounded ==
    AnalystReturned =>
        /\ ret.val.analysts_count = ArgTotal
        /\ (ret.val.score_1_5 = Absent) <=> (ArgTotal = 0)
        /\ (ret.val.label = Absent) <=> (ArgTotal = 0)
        /\ \A k \in DistKeys : ret.val.distribution[k] = ArgVotes(k)
        /\ ArgTotal > 0 =>
              /\ 2 * Abs(100 * ArgWeighted - ret.val.score_1_5.n * ArgTotal) <= ArgTotal
              /\ ret.val.score_1_5.n \in 100..500
              /\ (ret.val.label = Str("strong_buy")) <=> (2 * ArgWeighted >= 9 * ArgTotal)
              /\ (ret.val.label = Str("buy"))
                    <=> (2 * ArgWeighted >= 7 * ArgTotal /\ 2 * ArgWeighted < 9 * ArgTotal)
              /\ (ret.val.label = Str("hold"))
                    <=> (2 * ArgWeighted >= 5 * ArgTotal /\ 2 * ArgWeighted < 7 * ArgTotal)
              /\ (ret.val.label = Str("sell"))
                    <=> (2 * ArgWeighted >= 3 * ArgTotal /\ 2 * ArgWeighted < 5 * ArgTotal)
              /\ (ret.val.label = Str("strong_sell")) <=> (2 * ArgWeighted < 3 * ArgTotal)

\* C11 witness: 50 strong-buy and 51 buy votes: the quotient 454/101 is under
\* 4.5, the returned score is 4.5 and the label is the second band's
C11_Witness ==
    /\ AnalystReturned
    /\ ArgTotal = 101
    /\ ret.val.score_1_5 = Num(450)
    /\ ret.val.label = Str("buy")

\* ---- C12
Succeeded == pc = "done" /\ outcome.kind = "result"

\* generate_insights was called in this review and returned at least one insight
InsightGenerated ==
    /\ Provider(keys) # "none"
    /\ Len(ConsensusInsight(Analyst) \o TargetInsight(Kpi, Analyst) \o MoveInsight(Kpi)) > 0

\* C12: the widget list of a successful result is kpis, tv_chart, analysts,
\* then the three fundamentals tables (annual, cash flow, quarterly) when the
\* fundamentals are present or else the single notice, then the insight list
\* only if an insight was generated, then the call-to-action, and nothing else.
C12_WidgetOrder ==
    Succeeded =>
        widgets =
            << "kpis", "tv_chart", "analysts" >>
            \o (IF Truthy(fundamentals)
                THEN << "fundamentals_annual_3y", "fundamentals_cashflow_3y",
                        "fundamentals_quarterly" >>
                ELSE << "fundamentals_notice" >>)
            \o (IF InsightGenerated THEN << "insights" >> ELSE <<>>)
            \o << "cta" >>

\* C12 witness: a successful result with the three tables and an insight list
C12_Witness ==
    /\ Succeeded
    /\ Len(widgets) = 8
    /\ widgets[7] = "insights"

\* ---- C13
\* the provider the configuration selects: Claude, else OpenAI, else none
SelectedProviders ==
    IF keys.anthropic THEN {"claude"} ELSE IF keys.openai THEN {"openai"} ELSE {}

\* C13: one content strategy per review, fixed by the configuration (Claude if
\* its key is set, else OpenAI if its key is set, else the static fallback):
\* without a provider no content request is issued and a result has exactly
\* the one static section and no insight list; with a provider at most one
\* content request is issued in the review, to the selected provider only,
\* also after that provider failed, and a result was preceded by exactly one.
C13_OneContentStrategy ==
    /\ sent.content <= 1
    /\ sent.contacted \subseteq SelectedProviders
    /\ Cardinality(sent.contacted) = sent.content
    /\ pc \in {"start", "fetch", "cik_get", "facts_get"} => sent.content = 0
    /\ (Succeeded /\ SelectedProviders = {}) =>
          /\ sent.content = 0
          /\ Len(sections) = 1
          /\ sections[1] = Obj([id |-> Str("overview"), title |-> Str("overview"),
                                html |-> FallbackHtml(CompanyName, symbol)])
          /\ \A i \in 1..Len(widgets) : widgets[i] # "insights"
    /\ (Succeeded /\ SelectedProviders # {}) => sent.content = 1

\* C13 witness: both providers are configured, the request to Claude failed,
\* the review ended with the generator's fallback section and OpenAI was never
\* contacted
C13_Witness ==
    /\ Succeeded
    /\ keys.anthropic /\ keys.openai
    /\ sections = FallbackSections(CompanyName, symbol).items
    /\ sent.contacted = {"claude"}

\* ------------------------------------ generate_stock_sections called on its own
MaxTokens == 4

\* the pieces a backend's text is made of
ReplyTokens ==
    { Prose, FenceJson, Fence, JsonText(GoodSections), JsonText(NotAnObject) }

\* the backend's replies: the call raises, a response without a text, and
\* every text of at most MaxTokens pieces
SectionReplies ==
    { [kind |-> "raise", tokens |-> <<>>], [kind |-> "empty", tokens |-> <<>>] }
    \cup { [kind |-> "text", tokens |-> t] : t \in SeqsUpTo(ReplyTokens, MaxTokens) }

InitSections ==
    /\ IdleReview
    /\ \E provider \in {"claude", "openai"}, reply \in SectionReplies :
          arg = [fn |-> "generate_stock_sections", provider |-> provider,
                 reply |-> reply, company_name |-> Str("Acme Corp"), symbol |-> "ACME"]
    /\ ret = NoReturn

\* the call generate_stock_sections(symbol, company_name, ...)
SectionsCall ==
    /\ arg.fn = "generate_stock_sections"
    /\ ret = NoReturn
    /\ LET out == GenerateStockSections(arg.provider, arg.reply, arg.company_name,
                                        arg.symbol)
       IN  ret' = [kind |-> IF out.t = "raise" THEN "raise" ELSE "return", val |-> out]
    /\ UNCHANGED << arg, review >>

NextSections == SectionsCall

SpecSections == InitSections /\ [][NextSections]_vars

\* ---- C14
SectionsEnded == arg.fn = "generate_stock_sections" /\ ret # NoReturn

\* the text the generator hands to json.loads: for Claude the part between the
\* code fences, if any
LoadedText ==
    IF arg.provider = "claude" THEN StripFences(arg.reply.tokens) ELSE arg.reply.tokens

\* the remote call raised, or the response is not the text of one JSON value
CallFailedOrUnparsable ==
    \/ arg.reply.kind \in {"raise", "empty"}
    \/ ~(Len(LoadedText) = 1 /\ LoadedText[1].tk = "json")

\* C14: for both generators, when the remote call raises or the response is
\* not parsable JSON, generate_stock_sections does not raise and returns a
\* list of one fallback section whose text names the company and the symbol.
C14_FallbackSections ==
    (SectionsEnded /\ CallFailedOrUnparsable) =>
        /\ ret.kind = "return"
        /\ IsList(ret.val)
        /\ Len(ret.val.items) = 1
        /\ ValidSection(ret.val.items[1])
        /\ ret.val.items[1].f["html"].company = arg.company_name
        /\ ret.val.items[1].f["html"].symbol = arg.symbol

\* C14 witness: Claude answered with prose around an unfenced JSON value and
\* the fallback section was returned
C14_Witness ==
    /\ SectionsEnded
    /\ arg.provider = "claude"
    /\ arg.reply.tokens = << Prose, JsonText(GoodSections) >>
    /\ ret.val = FallbackSections(arg.company_name, arg.symbol)

\* ----------------------------------------- generate_insights called on its own
\* scores in hundredths, prices and targets in whole dollars, the day's change
\* in whole percent: the values around every threshold
ScoreInputs == { Absent, Num(100), Num(250), Num(251), Num(399), Num(400), Num(500) }
ConsensusInputs == { Absent, Num(0), Num(89), Num(90), Num(120), Num(121), Num(125) }
PriceInputs == { Absent, Num(0), Num(100) }
DayChangeInputs ==
    { Absent, Num(0), Num(5), Num(6), Num(10), Num(11), Num(-5), Num(-6), Num(-10),
      Num(-11) }

InitInsights ==
    /\ IdleReview
    /\ \E provider \in {"claude", "openai"}, score \in ScoreInputs,
          cons \in ConsensusInputs, price \in PriceInputs, dc \in DayChangeInputs,
          range \in { [high |-> Num(150), low |-> Num(80)],
                      [high |-> Absent, low |-> Absent] } :
          arg = [fn |-> "generate_insights", provider |-> provider,
                 kpi_data |-> [price |-> price, day_change_pct |-> dc],
                 analyst_data |-> [score_1_5 |-> score,
                                   targets |-> [consensus |-> cons, median |-> cons,
                                                high |-> range.high, low |-> range.low]]]
    /\ ret = NoReturn

\* the call generate_insights(symbol, company_name, kpi_data, analyst_data)
InsightsCall ==
    /\ arg.fn = "generate_insights"
    /\ ret = NoReturn
    /\ ret' = GenerateInsights(arg.provider, arg.kpi_data, arg.analyst_data)
    /\ UNCHANGED << arg, review >>

NextInsights == InsightsCall

SpecInsights == InitInsights /\ [][NextInsights]_vars

\* ---- C15
InsightsEnded == arg.fn = "generate_insights" /\ ret # NoReturn

ArgScore == arg.analyst_data.score_1_5
ArgConsensus == arg.analyst_data.targets.consensus
ArgPrice == arg.kpi_data.price
ArgDayChange == arg.kpi_data.day_change_pct

\* the upside (consensus - price)/price*100 exists: both operands are present
\* and non-zero
HasUpside ==
    /\ ArgConsensus.t = "num" /\ ArgConsensus.n # 0
    /\ ArgPrice.t = "num" /\ ArgPrice.n # 0

\* the insights that fire, in the order consensus, price target, daily move
FiringInsights ==
    (IF ArgScore.t = "num" /\ ArgScore.n >= 400
     THEN << [kind |-> "consensus", severity |-> "low"] >>
     ELSE IF ArgScore.t = "num" /\ ArgScore.n <= 250
     THEN << [kind |-> "consensus", severity |-> "high"] >>
     ELSE <<>>)
    \o (IF HasUpside /\ (ArgConsensus.n - ArgPrice.n) * 100 > 20 * ArgPrice.n
        THEN << [kind |-> "price_target", severity |-> "low"] >>
        ELSE IF HasUpside /\ (ArgConsensus.n - ArgPrice.n) * 100 < -10 * ArgPrice.n
        THEN << [kind |-> "price_target", severity |-> "high"] >>
        ELSE <<>>)
    \o (IF ArgDayChange.t = "num" /\ Abs(ArgDayChange.n) > 10
        THEN << [kind |-> "daily_move", severity |-> "high"] >>
        ELSE IF ArgDayChange.t = "num" /\ Abs(ArgDayChange.n) > 5
        THEN << [kind |-> "daily_move", severity |-> "medium"] >>
        ELSE <<>>)

\* C15: generate_insights of either generator returns exactly the insights
\* that fire, in the order consensus, price target, daily move: consensus low
\* iff score >= 4.0 and high iff score <= 2.5; price target low iff upside > 20
\* and high iff upside < -10 (strict: 120 against 100 gives none, 125 against
\* 100 gives low); daily move high iff |change| > 10, medium iff
\* 5 < |change| <= 10.
C15_InsightsThatFire ==
    InsightsEnded => (ret.kind = "return" /\ ret.items = FiringInsights)

\* the same, for the calls that return
C15_WhenReturned ==
    (InsightsEnded /\ ret.kind = "return") => ret.items = FiringInsights

\* the calls that raise are those of the Claude generator with an upside above
\* 20 and no target range
C15_RaisesOnlyThere ==
    (InsightsEnded /\ ret.kind = "raise") =>
        /\ arg.provider = "claude"
        /\ arg.analyst_data.targets.low = Absent
        /\ HasUpside /\ (ArgConsensus.n - ArgPrice.n) * 100 > 20 * ArgPrice.n

\* ------------------------------------------------- get_cik called repeatedly
MaxLookups == 3

\* the symbols get_cik is called with, upper-cased by generate_review
LookupSymbols == {"ACME", "BETA"}

InitCik ==
    /\ IdleReview
    /\ \E syms \in SeqsUpTo(LookupSymbols, MaxLookups) :
          arg = [fn |-> "get_cik", symbols |-> syms]
    /\ ret = [kind |-> "return", ciks |-> <<>>, directory |-> <<>>]

\* the next call get_cik(symbol) of a sequence of calls on one process: the
\* cached identifier, or the download of the directory and its scan
CikCall ==
    /\ arg.fn = "get_cik"
    /\ Len(ret.ciks) < Len(arg.symbols)
    /\ LET sym == arg.symbols[Len(ret.ciks) + 1]
       IN  IF CacheHit(cik_cache, sym)
           THEN /\ ret' = [ret EXCEPT !.ciks = Append(@, cik_cache[sym])]
                /\ UNCHANGED << cik_cache, sent >>
           ELSE \E status \in SecStatuses :
                \E directory \in IF status = "200" THEN Directories ELSE {<<>>} :
                   LET out == GetCikBody(cik_cache, sym, status, directory)
                   IN  /\ ret' = [ret EXCEPT !.ciks = Append(@, out.cik),
                                              !.directory = directory]
                       /\ cik_cache' = out.cache
                       /\ sent' = [sent EXCEPT !.directory = @ + 1]
    /\ UNCHANGED << arg, keys, symbol, pc, clients, calls, data, secAttempt,
                    fundamentals, widgets, sections, pending, outcome >>

NextCik == CikCall

SpecCik == InitCik /\ [][NextCik]_vars

\* ---- C16
\* the symbol of the next get_cik call, "" after the last one
NextSymbol ==
    IF arg.fn = "get_cik" /\ Len(ret.ciks) < Len(arg.symbols)
    THEN arg.symbols[Len(ret.ciks) + 1]
    ELSE ""

\* C16: a get_cik call for a ticker that an earlier call has put in the cache
\* returns the cached identifier and does not download the directory again;
\* and the cache holds only what earlier downloads put there.
C16_CachedLookup ==
    [][ /\ (NextSymbol # "" /\ NextSymbol \in DOMAIN cik_cache) =>
              /\ Len(ret'.ciks) = Len(ret.ciks) + 1
              /\ ret'.ciks[Len(ret'.ciks)] = cik_cache[NextSymbol]
              /\ ret'.ciks[Len(ret'.ciks)] # NoCik
              /\ sent'.directory = sent.directory
              /\ cik_cache' = cik_cache
        /\ (sent.directory = 0 /\ arg.fn = "get_cik") => cik_cache = EmptyCache
      ]_vars

\* C16 witness: two calls for the same symbol, one download, the same
\* ten-digit identifier both times
C16_Witness ==
    /\ arg.fn = "get_cik"
    /\ Len(ret.ciks) >= 2
    /\ arg.symbols[1] = arg.symbols[2]
    /\ ret.ciks[1] = << 0, 0, 0, 0, 3, 2, 0, 1, 9, 3 >>
    /\ ret.ciks[2] = ret.ciks[1]
    /\ sent.directory = 1

\* ---- C17
\* get_fundamentals ends with this step
FundamentalsEnds == pc \in FundamentalsPcs /\ pc' \notin FundamentalsPcs

\* C17: get_fundamentals returns absent without error when the identifier
\* cannot be resolved, and then issues no company-facts request; it also
\* returns absent without error when the facts fetch yields absent (a 404,
\* any other non-200 response, or an exception during the fetch).
C17_AbsentWithoutError ==
    [][ FundamentalsEnds =>
          /\ symbol \notin DOMAIN cik_cache' =>
                /\ fundamentals' = Absent
                /\ pending' = ""
                /\ sent'.facts = 0
                /\ IsPrefix(BaseWidgets \o NoticeWidgets, widgets')
          /\ (sent'.facts >= 1 /\ sent'.status # "200") =>
                /\ fundamentals' = Absent
                /\ pending' = ""
                /\ sent'.facts = 1
                /\ IsPrefix(BaseWidgets \o NoticeWidgets, widgets')
      ]_vars

\* C17 witness: the directory was downloaded, the company facts answered 404,
\* and the review went on with the notice
C17_Witness ==
    /\ sent.directory = 1 /\ sent.facts = 1
    /\ sent.status = "404"
    /\ fundamentals = Absent
    /\ pc = "done" /\ outcome.kind = "result"
    /\ widgets[4] = "fundamentals_notice"

\* --------------------------------- the free-cash-flow loop called on its own
MaxSeries == 3

\* values of a series extract_metric returns, in hundredths: 1000.00, -200.00,
\* 1.23, 0.45, and a missing value
SeriesValues == { Absent, Num(100000), Num(-20000), Num(123), Num(45) }

\* extract_metric returns between 1 and count values
SeriesInputs == SeqsUpTo(SeriesValues, MaxSeries) \ { <<>> }

InitFcf ==
    /\ IdleReview
    /\ \E operating \in SeriesInputs, capex \in SeriesInputs :
          arg = [fn |-> "free_cash_flow", operating |-> operating, capex |-> capex]
    /\ ret = NoReturn

\* the loop of get_fundamentals over the two series
FcfCall ==
    /\ arg.fn = "free_cash_flow"
    /\ ret = NoReturn
    /\ ret' = FcfSeries(arg.operating, arg.capex)
    /\ UNCHANGED << arg, review >>

NextFcf == FcfCall

SpecFcf == InitFcf /\ [][NextFcf]_vars

\* ---- C18
FcfEnded == arg.fn = "free_cash_flow" /\ ret # NoReturn

\* C18: the free cash flow is elementwise operating - |capex|: there is a
\* value for every index i of the operating-cash-flow series, it is
\* operating[i] - |capex[i]| when both are present (1000 and -200 give 800)
\* and absent when either is absent.
C18_FreeCashFlow ==
    FcfEnded =>
        /\ ret.kind = "return"
        /\ Len(ret.values) = Len(arg.operating)
        /\ \A i \in 1..Len(arg.operating) :
              IF arg.operating[i].t = "num" /\ arg.capex[i].t = "num"
              THEN ret.values[i] = Num(arg.operating[i].n - Abs(arg.capex[i].n))
              ELSE ret.values[i] = Absent

\* the same for the calls that return, the difference taken to one decimal
C18_WhenReturned ==
    (FcfEnded /\ ret.kind = "return") =>
        /\ Len(ret.values) = Len(arg.operating)
        /\ \A i \in 1..Len(arg.operating) :
              IF arg.operating[i].t = "num" /\ arg.capex[i].t = "num"
              THEN /\ ret.values[i].t = "num"
                   /\ ret.values[i].n % 10 = 0
                   /\ Abs(ret.values[i].n - (arg.operating[i].n - Abs(arg.capex[i].n))) <= 5
              ELSE ret.values[i] = Absent

\* the series of a call that raised: capex is the shorter one
C18_RaisesOnShortCapex ==
    (FcfEnded /\ ret.kind = "raise") => Len(arg.capex) < Len(arg.operating)

\* ---- C19
\* the reported facts of the metric passed to extract_metric
ArgRecords ==
    IF Truthy(arg.metric_data) /\ Truthy(Get(arg.metric_data, "units"))
    THEN UnitsOf(arg.metric_data)
    ELSE <<>>

\* the positions of the facts of the requested form
Matching ==
    { k \in 1..Len(ArgRecords) :
        ArgRecords[k].form = (IF arg.period = "annual" THEN "10-K" ELSE "10-Q") }

SeriesReturned ==
    /\ arg.fn = "extract_metric"
    /\ ret # NoReturn
    /\ ret.kind = "return"
    /\ Matching # {}

\* positions idx[1..n] pick the returned series out of the facts: distinct
\* facts of the requested form, entry i of the series made from fact idx[i],
\* period ends ascending, and no fact left out is more recent than one picked
Picks(idx, n) ==
    /\ \A i \in 1..n : idx[i] \in Matching
    /\ \A i, j \in 1..n : i # j => idx[i] # idx[j]
    /\ \A i \in 1..n :
          /\ ret.periods[i] = PeriodLabel(ArgRecords[idx[i]], arg.period)
          /\ ret.values[i] = ScaleValue(ArgRecords[idx[i]].val)
    /\ \A i, j \in 1..n :
          i < j => ~EndLess(ArgRecords[idx[j]].end, ArgRecords[idx[i]].end)
    /\ \A k \in Matching :
          (\A i \in 1..n : idx[i] # k)
             => \A i \in 1..n : ~EndLess(ArgRecords[idx[i]].end, ArgRecords[k].end)

\* C19: the series extract_metric returns is made of the facts of the
\* requested form with the most recent period ends (count of them, or all if
\* there are fewer), in ascending order of period end: no fact of another form
\* is in it and no older fact displaces a more recent one of that form.
C19_MostRecentAscending ==
    SeriesReturned =>
        LET n == IF Cardinality(Matching) < arg.count
                 THEN Cardinality(Matching) ELSE arg.count
        IN  /\ Len(ret.periods) = n
            /\ Len(ret.values) = n
            /\ \E idx \in [1..n -> 1..Len(ArgRecords)] : Picks(idx, n)

\* C19 witness: a series of two values cut from three annual facts that the
\* filing data lists oldest first
C19_Witness ==
    /\ SeriesReturned
    /\ arg.period = "annual" /\ arg.count = 2
    /\ Len(ArgRecords) = 3
    /\ Cardinality(Matching) = 3
    /\ EndLess(ArgRecords[1].end, ArgRecords[2].end)
    /\ EndLess(ArgRecords[2].end, ArgRecords[3].end)
    /\ Len(ret.values) = 2

\* ------------------------------- the KPI block and the insights called on it
\* the quote slot: the provider's quote with a price of 100, 99, 0 or null, and
\* the default of a failed call
QuoteInputs ==
    { Obj([c |-> Num(100), dp |-> Num(2)]),
      Obj([c |-> Num(99), dp |-> Num(2)]),
      Obj([c |-> Num(0), dp |-> Num(0)]),
      Obj([c |-> Absent, dp |-> Absent]),
      SlotDefault("quote") }

\* the price_target slot: a consensus of 125 with and without its range, of
\* 120, of 0, and the default of a failed call
KpiTargetInputs ==
    PriceTargetPayloads
    \cup { Obj([targetMean |-> Num(120), targetMedian |-> Num(120),
                targetHigh |-> Num(150), targetLow |-> Num(90)]),
           Obj([targetMean |-> Num(0), targetMedian |-> Num(0),
                targetHigh |-> Num(0), targetLow |-> Num(0)]),
           SlotDefault("price_target") }

InitKpi ==
    /\ IdleReview
    /\ \E provider \in {"claude", "openai"}, quote \in QuoteInputs,
          pt \in KpiTargetInputs, recs \in RecommendationPayloads :
          arg = [fn |-> "kpi_data", provider |-> provider, quote |-> quote,
                 analyst_data |-> CalculateAnalystData(recs, pt)]
    /\ ret = NoReturn

\* "Build KPI data" and "Calculate upside" of generate_review
KpiCall ==
    /\ arg.fn = "kpi_data"
    /\ ret = NoReturn
    /\ LET kpi == KpiData(arg.quote, arg.analyst_data)
       IN  ret' = [kind |-> IF kpi.price_target_upside_pct.t = "raise"
                            THEN "raise" ELSE "return",
                   kpi_data |-> kpi,
                   insights |-> NoReturn]
    /\ UNCHANGED << arg, review >>

\* generate_insights of the selected generator on that KPI data
KpiInsightsCall ==
    /\ arg.fn = "kpi_data"
    /\ ret # NoReturn /\ ret.kind = "return" /\ ret.insights = NoReturn
    /\ ret' = [ret EXCEPT !.insights =
                  GenerateInsights(arg.provider, ret.kpi_data, arg.analyst_data)]
    /\ UNCHANGED << arg, review >>

NextKpi == KpiCall \/ KpiInsightsCall

SpecKpi == InitKpi /\ [][NextKpi]_vars

\* ---- C20
KpiEnded == arg.fn = "kpi_data" /\ ret # NoReturn

\* the two operands: the price-target consensus and the current price
ArgTarget == arg.analyst_data.targets.consensus
ArgQuotePrice == Get(arg.quote, "c")
BothOperands ==
    /\ ArgTarget.t = "num" /\ ArgTarget.n # 0
    /\ ArgQuotePrice.t = "num" /\ ArgQuotePrice.n # 0

\* no division by a zero or absent price: the KPI block does not raise, and
\* generate_insights raises at most when both operands are present and non-zero
NoBadDivision ==
    /\ ret.kind = "return"
    /\ ret.kpi_data.price_target_upside_pct.t \in {"num", "none"}
    /\ ret.insights # NoReturn =>
          /\ ret.insights.exc # "ZeroDivisionError"
          /\ ret.insights.kind = "raise" => BothOperands

\* C20 as stated: price_target_upside_pct is (consensus - price)/price*100
\* itself when consensus and price are both present and non-zero, and absent
\* otherwise; and no division by a zero or absent price occurs.
C20_UpsideIsQuotient ==
    KpiEnded =>
        /\ NoBadDivision
        /\ IF BothOperands
           THEN /\ ret.kpi_data.price_target_upside_pct.t = "num"
                /\ ret.kpi_data.price_target_upside_pct.n * ArgQuotePrice.n
                      = (ArgTarget.n - ArgQuotePrice.n) * 10000
           ELSE ret.kpi_data.price_target_upside_pct = Absent

\* C20, amended: price_target_upside_pct is (consensus - price)/price*100
\* rounded to two decimals (within 0.005 of it) when the price-target
\* consensus and the current price are both present and non-zero, and absent
\* otherwise; no division by a zero or absent price occurs in the KPI block or
\* in either insight generator, also when the quote slot is the empty default.
C20_UpsideRounded ==
    KpiEnded =>
        /\ NoBadDivision
        /\ IF BothOperands
           THEN /\ ret.kpi_data.price_target_upside_pct.t = "num"
                /\ 2 * Abs(ret.kpi_data.price_target_upside_pct.n * ArgQuotePrice.n
                           - (ArgTarget.n - ArgQuotePrice.n) * 10000)
                      <= Abs(ArgQuotePrice.n)
           ELSE ret.kpi_data.price_target_upside_pct = Absent

\* C20 witness: the quote slot is the empty default, the consensus is 125, the
\* upside is absent and generate_insights returned
C20_Witness ==
    /\ KpiEnded
    /\ arg.quote = EmptyObj
    /\ ArgTarget = Num(125)
    /\ ret.kpi_data.price_target_upside_pct = Absent
    /\ ret.insights # NoReturn /\ ret.insights.kind = "return"

\* ------------------------------------ the "Format value" step called on its own
\* the reported values around the two thresholds, whole and fractional;
\* no value lies halfway between two tenths unless its quotient is a
\* binary fraction
ScaleInputs ==
    { Absent }
    \cup { Num(n) : n \in { 0, 7, 950, -200, 999999, Million, Million + 1, -Million,
                            -(Million + 1), 1049999, 1050001, 1250000, 1750000,
                            45000000, -45000000, 999999999, Billion, Billion + 1,
                            -Billion, -(Billion + 1), 1049999999, 1050000001,
                            1250000000, 1750000000, 1500000000, -1500000000,
                            2000000000, 2147483647 } }
    \cup { Milli(n) : n \in { 2346, 2344, -2346, 125, 375, -4, 999999994,
                               1000000001, 1049999999, 1500000500 } }

InitScale ==
    /\ IdleReview
    /\ \E val \in ScaleInputs, count \in 1..MaxCount :
          arg = [fn |-> "extract_metric",
                 metric_data |-> Obj([units |-> Obj([USD |-> List(
                     << [form |-> "10-K", end |-> << 2023, 12, 31 >>, val |-> val,
                         fp |-> "FY"] >>)])]),
                 period |-> "annual", count |-> count]
    /\ ret = NoReturn

\* the call extract_metric(metric_data, "annual", count) on a single fact
ScaleCall ==
    /\ arg.fn = "extract_metric"
    /\ ret = NoReturn
    /\ ret' = ExtractMetric(arg.metric_data, arg.period, arg.count)
    /\ UNCHANGED << arg, review >>

NextScale == ScaleCall

SpecScale == InitScale /\ [][NextScale]_vars

Scaled == arg.fn = "extract_metric" /\ ret # NoReturn
ArgVal == arg.metric_data.f.units.f.USD.items[1].val
\* |v| > limit, v = n or n / 1000
Above(v, limit) ==
    IF v.t = "milli"
    THEN Abs(v.n) > 1000 * limit
    ELSE Abs(v.n) > limit
\* out (hundredths) is v / factor rounded to one decimal: a whole number of
\* tenths no further than half a tenth from the quotient
TenthsOf(out, v, factor) ==
    LET tenth == (factor \div 10) * (IF v.t = "milli" THEN 1000 ELSE 1)
    IN  /\ out.n % 10 = 0
        /\ 2 * Abs(v.n - (out.n \div 10) * tenth) <= tenth
\* out (hundredths) is v rounded to two decimals
HundredthsOf(out, v) ==
    IF v.t = "milli" THEN 2 * Abs(v.n - 10 * out.n) <= 10 ELSE out.n = 100 * v.n

\* C21: extract_metric scales each present value v by magnitude with strict
\* thresholds: |v| > 1e9 gives v/1e9 rounded to one decimal, otherwise
\* |v| > 1e6 gives v/1e6 rounded to one decimal, otherwise v rounded to two
\* decimals, the sign preserved; an absent value stays absent.
C21_ScaledByMagnitude ==
    Scaled =>
        /\ ret.kind = "return"
        /\ Len(ret.values) = 1
        /\ LET v == ArgVal
               out == ret.values[1]
           IN  IF v.t = "none" THEN out = Absent
               ELSE /\ out.t = "num"
                    /\ (v.n > 0 => out.n >= 0)
                    /\ (v.n < 0 => out.n <= 0)
                    /\ IF v.t = "num" /\ Abs(v.n) > Billion
                       THEN TenthsOf(out, v, Billion)
                       ELSE IF Above(v, Million)
                       THEN TenthsOf(out, v, Million)
                       ELSE HundredthsOf(out, v)

\* exactly 1e9 came back scaled as millions: 1000.0
C21_Witness ==
    /\ Scaled
    /\ ArgVal = Num(Billion)
    /\ ret.values = << Num(100000) >>

\* ---- C22
\* the next get_cik call misses the cache
CacheMiss == NextSymbol # "" /\ NextSymbol \notin DOMAIN cik_cache
\* the step downloaded the directory and got it (a 200 response)
Downloaded == sent'.directory = sent.directory + 1 /\ ret'.directory # <<>>
\* the position at which the scan of directory d for sym stops
Encountered(d, sym) ==
    IF \E i \in 1..Len(d) : Upper(d[i].ticker) = Upper(sym)
    THEN CHOOSE i \in 1..Len(d) :
            /\ Upper(d[i].ticker) = Upper(sym)
            /\ \A j \in 1..(i - 1) : Upper(d[j].ticker) # Upper(sym)
    ELSE Len(d)
TickersOf(d, n) == { Upper(d[i].ticker) : i \in 1..n }

\* C22: on a cache miss the directory is downloaded once and every
\* ticker of it is in the cache after the call, wherever the queried ticker
\* is positioned in the directory.
C22_EveryEntryCached ==
    [][ CacheMiss =>
           /\ sent'.directory = sent.directory + 1
           /\ Downloaded =>
                 TickersOf(ret'.directory, Len(ret'.directory)) \subseteq DOMAIN cik_cache'
      ]_vars

\* What the code does on a cache miss the directory is downloaded once,
\* and the cache gains the entries encountered, those up to and including the
\* first entry of the queried ticker (all of them when it is not listed), each
\* under its upper-cased ticker with its zero-padded identifier; the entries
\* after it are not stored.
C22_EncounteredCached ==
    [][ CacheMiss =>
           /\ sent'.directory = sent.directory + 1
           /\ IF Downloaded
              THEN LET d == ret'.directory
                       n == Encountered(d, NextSymbol)
                   IN  /\ DOMAIN cik_cache' = DOMAIN cik_cache \cup TickersOf(d, n)
                       /\ \A i \in 1..n :
                             (\A j \in (i + 1)..n : Upper(d[j].ticker) # Upper(d[i].ticker))
                                => cik_cache'[Upper(d[i].ticker)] = CikOf(d[i])
                       /\ \A t \in DOMAIN cik_cache \ TickersOf(d, n) :
                             cik_cache'[t] = cik_cache[t]
              ELSE cik_cache' = cik_cache
      ]_vars

\* BETA was looked up in the directory that lists beta before
\* ACME: beta is cached under "BETA", ACME is not
C22_StopsAtMatch ==
    /\ arg.fn = "get_cik"
    /\ Len(ret.ciks) = 1
    /\ arg.symbols[1] = "BETA"
    /\ Len(ret.directory) = 2
    /\ ret.ciks[1] = << 0, 0, 0, 0, 0, 0, 0, 0, 4, 2 >>
    /\ DOMAIN cik_cache = {"BETA"}

\* ---- C23
\* the facts the returned series is made of, oldest first
SelectedFacts == Reverse(SelectRecords(arg.metric_data, arg.period, arg.count))
\* out (hundredths) is v / factor: one decimal for millions and billions, the
\* value itself for factor 1
ScaledBy(out, v, factor) ==
    /\ out.t = "num"
    /\ IF factor = 1
       THEN out.n % 100 = 0 /\ out.n \div 100 = v.n
       ELSE out.n = 10 * RoundHalfEven(v.n, factor \div 10)

\* C23: all present values of one extracted series are scaled to a single
\* magnitude: every value of a series extract_metric returns is divided by the
\* same factor (billions, millions or raw), so the order of the raw values is
\* preserved.
C23_SingleMagnitude ==
    (SeriesReturned /\ Len(ret.values) = Len(SelectedFacts)) =>
        /\ \E factor \in {1, Million, Billion} :
              \A i \in 1..Len(ret.values) :
                 SelectedFacts[i].val.t = "num"
                    => ScaledBy(ret.values[i], SelectedFacts[i].val, factor)
        /\ \A i, j \in 1..Len(ret.values) :
              (/\ SelectedFacts[i].val.t = "num"
               /\ SelectedFacts[j].val.t = "num"
               /\ SelectedFacts[i].val.n < SelectedFacts[j].val.n)
                 => ret.values[i].n <= ret.values[j].n

\* What the code does: each value of the series is scaled by its own magnitude
C23_EachByItsOwn ==
    (SeriesReturned /\ Len(ret.values) = Len(SelectedFacts)) =>
        \A i \in 1..Len(ret.values) :
           SelectedFacts[i].val.t = "num" =>
              \E factor \in {1, Million, Billion} :
                 /\ ScaledBy(ret.values[i], SelectedFacts[i].val, factor)
                 /\ (factor = Billion) = (Abs(SelectedFacts[i].val.n) > Billion)
                 /\ (factor = 1) = (Abs(SelectedFacts[i].val.n) <= Million)

\* a series of 950 and 45,000,000 came back as 950.0 and 45.0
C23_MixedSeries ==
    /\ SeriesReturned
    /\ Len(ret.values) = 2
    /\ SelectedFacts[1].val = Num(950)
    /\ SelectedFacts[2].val = Num(45000000)
    /\ ret.values = << Num(95000), Num(4500) >>

\* ----------------------------------- get_cik calls running on one event loop
\* the number of get_cik coroutines in flight at once
MaxCalls == 2
Coroutines == 1..MaxCalls

\* Coroutines of get_cik for any symbols, all served the same directory; a
\* coroutine is at "start", suspended in its GET ("get"), or "done"
InitConcurrent ==
    /\ IdleReview
    /\ \E syms \in [Coroutines -> LookupSymbols], directory \in Directories :
          arg = [fn |-> "get_cik_concurrent", symbols |-> syms, directory |-> directory]
    /\ ret = [kind |-> "return",
              at |-> [p \in Coroutines |-> "start"],
              ciks |-> [p \in Coroutines |-> NoCik],
              status |-> [p \in Coroutines |-> ""]]

\* get_cik up to its await: the cache lookup, and the GET it issues on a miss
CikEnter(p) ==
    /\ arg.fn = "get_cik_concurrent"
    /\ ret.at[p] = "start"
    /\ IF CacheHit(cik_cache, arg.symbols[p])
       THEN /\ ret' = [ret EXCEPT !.at[p] = "done",
                                  !.ciks[p] = cik_cache[arg.symbols[p]],
                                  !.status[p] = "cached"]
            /\ UNCHANGED sent
       ELSE /\ ret' = [ret EXCEPT !.at[p] = "get"]
            /\ sent' = [sent EXCEPT !.directory = @ + 1]
    /\ UNCHANGED << arg, keys, symbol, pc, clients, calls, data, secAttempt,
                    cik_cache, fundamentals, widgets, sections, pending, outcome >>

\* get_cik from the response of its GET to its return: no await in between
CikResume(p) ==
    /\ arg.fn = "get_cik_concurrent"
    /\ ret.at[p] = "get"
    /\ \E status \in SecStatuses :
          LET out == GetCikBody(cik_cache, arg.symbols[p], status,
                                IF status = "200" THEN arg.directory ELSE <<>>)
          IN  /\ cik_cache' = out.cache
              /\ ret' = [ret EXCEPT !.at[p] = "done", !.ciks[p] = out.cik,
                                    !.status[p] = status]
    /\ UNCHANGED << arg, keys, symbol, pc, clients, calls, data, secAttempt,
                    fundamentals, widgets, sections, pending, sent, outcome >>

\* TTLCache(maxsize=10000, ttl=86400): an entry leaves the cache when its
\* time is up
CacheExpire ==
    /\ arg.fn = "get_cik_concurrent"
    /\ \E t \in DOMAIN cik_cache :
          cik_cache' = [u \in DOMAIN cik_cache \ {t} |-> cik_cache[u]]
    /\ UNCHANGED << arg, ret, keys, symbol, pc, clients, calls, data, secAttempt,
                    fundamentals, widgets, sections, pending, sent, outcome >>

NextConcurrent ==
    \/ \E p \in Coroutines : CikEnter(p)
    \/ \E p \in Coroutines : CikResume(p)
    \/ CacheExpire

SpecConcurrent == InitConcurrent /\ [][NextConcurrent]_vars

\* ---- C24
Concurrent == arg.fn = "get_cik_concurrent"
\* the identifier directory d lists for ticker t: cik_str as ten digits
Listed(d, t) ==
    { ZFill(DigitsOf(d[i].cik_str), 10) : i \in { k \in 1..Len(d) : Upper(d[k].ticker) = t } }
\* what get_cik(sym) returns when it runs alone and is served directory d
Alone(d, sym) ==
    IF Listed(d, Upper(sym)) = {} THEN NoCik
    ELSE CHOOSE c \in Listed(d, Upper(sym)) : TRUE

\* C24: for every interleaving of concurrent get_cik calls over the same
\* directory, every entry of the cache is the identifier the directory lists
\* for that ticker, and each call that ended returned what it returns when run
\* alone: the listed identifier (None for an unlisted ticker), or None when
\* its own download failed.
C24_CacheSafeWithoutLock ==
    Concurrent =>
        /\ \A t \in DOMAIN cik_cache : cik_cache[t] \in Listed(arg.directory, t)
        /\ \A p \in Coroutines :
              ret.at[p] = "done" =>
                 IF ret.status[p] \in {"200", "cached"}
                 THEN ret.ciks[p] = Alone(arg.directory, arg.symbols[p])
                 ELSE ret.ciks[p] = NoCik

\* C24 witness: two calls for ACME were both suspended in their download of
\* the directory listing beta before ACME, both wrote the cache, and both
\* returned ACME's identifier
C24_Witness ==
    /\ Concurrent
    /\ \A p \in Coroutines :
          /\ arg.symbols[p] = "ACME"
          /\ ret.at[p] = "done"
          /\ ret.status[p] = "200"
          /\ ret.ciks[p] = << 0, 0, 0, 0, 3, 2, 0, 1, 9, 3 >>
    /\ sent.directory = MaxCalls
    /\ DOMAIN cik_cache = {"ACME", "BETA"}

\* ---- C25
AllProse(tokens) == \A i \in 1..Len(tokens) : tokens[i].tk = "prose"
\* the reply is the JSON object with its sections array inside code fences,
\* with or without text outside the fences
FencedJson(tokens) ==
    \E i \in 2..(Len(tokens) - 1) :
       /\ tokens[i] = JsonText(GoodSections)
       /\ tokens[i - 1].tk \in AnyFences
       /\ tokens[i + 1] = Fence
       /\ AllProse(SubSeq(tokens, 1, i - 2))
       /\ AllProse(SubSeq(tokens, i + 2, Len(tokens)))
\* the reply is the JSON object with text before it, after it or both
TextAroundJson(tokens) ==
    /\ Len(tokens) >= 2
    /\ \E i \in 1..Len(tokens) :
          /\ tokens[i] = JsonText(GoodSections)
          /\ AllProse(SubSeq(tokens, 1, i - 1))
          /\ AllProse(SubSeq(tokens, i + 1, Len(tokens)))
ClaudeAnswered ==
    SectionsEnded /\ arg.provider = "claude" /\ arg.reply.kind = "text"

\* C25: when the backend returns a valid JSON object with a sections array
\* wrapped in surrounding text or in code fences, generate_stock_sections of
\* the Claude generator strips the wrapping and returns those sections, not
\* the fallback section.
C25_WrappingStripped ==
    (ClaudeAnswered /\ (FencedJson(arg.reply.tokens) \/ TextAroundJson(arg.reply.tokens)))
        => /\ ret.kind = "return"
           /\ ret.val = GoodSections.f.sections

\* What the code does: code fences, and the text outside them, are stripped;
\* text around an unfenced object is not, and the fallback section is returned
C25_FencesStripped ==
    /\ (ClaudeAnswered /\ FencedJson(arg.reply.tokens))
          => (ret.kind = "return" /\ ret.val = GoodSections.f.sections)
    /\ (ClaudeAnswered /\ TextAroundJson(arg.reply.tokens))
          => (ret.kind = "return"
              /\ ret.val = FallbackSections(arg.company_name, arg.symbol))

\* text, a ```json fence, the object and the closing fence: the sections of
\* the object came back
C25_FencedReached ==
    /\ ClaudeAnswered
    /\ arg.reply.tokens = << Prose, FenceJson, JsonText(GoodSections), Fence >>
    /\ ret.val = GoodSections.f.sections

\* ---- C26
\* get_fundamentals returned its three tables
TablesBuilt == fundamentals.t = "obj"
TableNames == {"annual_3y", "cashflow_3y", "quarterly"}

\* C26: in each of the three tables built by get_fundamentals every row has
\* exactly as many values as the table has period columns, also when the
\* metrics of a table have different numbers of records of the requested form.
C26_RowsFitColumns ==
    TablesBuilt =>
        \A name \in TableNames :
           LET table == fundamentals.f[name]
           IN  \A i \in 1..Len(table.rows) :
                  Len(table.rows[i]) = Len(table.columns)

\* What the code does: the period columns are those of the first metric of the
\* table (at most 4 in the quarterly table), and the rows made from that
\* metric's indices fit them
C26_FirstRowFitsColumns ==
    TablesBuilt =>
        /\ \A name \in TableNames :
              Len(fundamentals.f[name].rows[1]) = Len(fundamentals.f[name].columns)
        /\ Len(fundamentals.f["cashflow_3y"].rows[3])
              = Len(fundamentals.f["cashflow_3y"].columns)
        /\ Len(fundamentals.f["quarterly"].columns) <= 4

\* two years of operating cash flow, three of capex: a cash-flow table of two
\* period columns whose Capex row has three values
C26_LongCapexRow ==
    /\ TablesBuilt
    /\ Len(fundamentals.f["cashflow_3y"].columns) = 2
    /\ Len(fundamentals.f["cashflow_3y"].rows[2]) = 3

\* ------------------------------- the cash-flow table of get_fundamentals alone
\* the fiscal years a metric may have a 10-K record for: 2021 .. 2020 + MaxYears
MaxYears == 4
FiscalYears == 1..MaxYears

\* the operating cash flow and the capex reported for fiscal year 2020 + i
OcfOf(i) == 1000 * i
CapexOf(i) == 10 * i

\* a metric with one annual record per year of the set: capex or operating
\* cash flow
RECURSIVE YearRecords(_, _, _)
YearRecords(years, i, capex) ==
    IF i > MaxYears THEN <<>>
    ELSE (IF i \in years
          THEN << [AnnualRecord(i) EXCEPT
                     !.val = Num(IF capex THEN CapexOf(i) ELSE OcfOf(i))] >>
          ELSE <<>>) \o YearRecords(years, i + 1, capex)
YearMetric(years, capex) ==
    Obj([units |-> Obj([USD |-> List(YearRecords(years, 1, capex))])])

InitCashflow ==
    /\ IdleReview
    /\ \E ocf \in SUBSET FiscalYears \ {{}}, capex \in SUBSET FiscalYears \ {{}} :
          arg = [fn |-> "get_fundamentals", ocf |-> ocf, capex |-> capex,
                 facts |-> Obj([
                    NetCashProvidedByUsedInOperatingActivities |-> YearMetric(ocf, FALSE),
                    PaymentsToAcquirePropertyPlantAndEquipment |-> YearMetric(capex, TRUE)])]
    /\ ret = NoReturn

\* get_fundamentals from the facts it fetched to the tables it returns
CashflowCall ==
    /\ arg.fn = "get_fundamentals"
    /\ ret = NoReturn
    /\ ret' = BuildFundamentals(arg.facts)
    /\ UNCHANGED << arg, review >>

NextCashflow == CashflowCall

SpecCashflow == InitCashflow /\ [][NextCashflow]_vars

\* ---- C27
CashflowReturned == arg.fn = "get_fundamentals" /\ ret # NoReturn /\ ret.kind = "return"
CashflowTable == ret.val.f["cashflow_3y"]
\* the fiscal year (as its index) that column i of the table names
ColumnYear(i) == CashflowTable.columns[i].year - 2020

\* C27: the free-cash-flow value in column i of the cash-flow table combines
\* the operating cash flow and the capex of one fiscal period, the one named
\* by column i, also when the two metrics have records for different sets of
\* period ends.
C27_FcfOfColumnPeriod ==
    CashflowReturned =>
        \A i \in 1..Len(CashflowTable.columns) :
           LET fcf == CashflowTable.rows[3][i]
               y == ColumnYear(i)
           IN  fcf # Absent =>
                  /\ y \in arg.ocf
                  /\ y \in arg.capex
                  /\ fcf = Num(100 * (OcfOf(y) - CapexOf(y)))

\* What the code does: column i is named after the i-th operating-cash-flow
\* period and its free cash flow pairs the i-th value of each series
C27_FcfOfColumnIndex ==
    CashflowReturned =>
        LET operating == ExtractMetric(
                Get(arg.facts, "NetCashProvidedByUsedInOperatingActivities"), "annual", 3)
            capex == ExtractMetric(
                Get(arg.facts, "PaymentsToAcquirePropertyPlantAndEquipment"), "annual", 3)
        IN  /\ CashflowTable.columns = operating.periods
            /\ Len(CashflowTable.rows[3]) = Len(operating.values)
            /\ \A i \in 1..Len(operating.values) :
                  CashflowTable.rows[3][i]
                     = Num(operating.values[i].n - Abs(capex.values[i].n))

\* operating cash flow of 2021-2023 and capex of 2022-2024: the column FY2021
\* shows the cash flow of 2021 less the capex of 2022
C27_Misaligned ==
    /\ CashflowReturned
    /\ arg.ocf = {1, 2, 3}
    /\ arg.capex = {2, 3, 4}
    /\ ColumnYear(1) = 1
    /\ CashflowTable.rows[3][1] = Num(100 * (OcfOf(1) - CapexOf(2)))

\* ---- C28
\* C28: the reported score and label agree: for every distribution with
\* total > 0 the label calculate_analyst_data returns is the one the
\* thresholds 4.5 / 3.5 / 2.5 / 1.5 assign to the reported score_1_5.
C28_LabelOfReportedScore ==
    (AnalystReturned /\ ArgTotal > 0) =>
        ret.val.label = Str(LabelOfHundredths(ret.val.score_1_5.n))

\* What the code does: the label is the one of the reported score unless the
\* quotient lies under a threshold by less than 0.005; then the reported score
\* is the threshold and the label is the band below it
C28_LabelOfQuotient ==
    (AnalystReturned /\ ArgTotal > 0) =>
        \/ ret.val.label = Str(LabelOfHundredths(ret.val.score_1_5.n))
        \/ /\ ret.val.score_1_5.n \in {450, 350, 250, 150}
           /\ 100 * ArgWeighted < ret.val.score_1_5.n * ArgTotal
           /\ ret.val.label = Str(LabelOfHundredths(ret.val.score_1_5.n - 1))

\* ---- C29
\* C29: every successful result of generate_review has a non-empty sections
\* list, whatever the content provider returns.
C29_SectionsNonEmpty ==
    Succeeded => Len(sections) > 0

\* What the code does: the sections are those of the provider's answer, none
\* if it has none; only a review without a provider always has its section
C29_StaticSection ==
    Succeeded =>
        /\ Provider(keys) = "none" => sections = StaticSections(CompanyName, symbol)
        /\ \A i \in 1..Len(sections) : ValidSection(sections[i])

\* a review with a provider configured succeeded without a section
C29_EmptySections ==
    /\ Succeeded
    /\ sent.content = 1
    /\ sections = <<>>

\* --------------------------------------------- the request-id middleware alone
\* the HTTP requests that may be in flight on the event loop at once
MaxRequests == 2
Requests == 1..MaxRequests

\* A log record factory is the chain of record_factory closures around the
\* original one, innermost first: <<>> is the original factory, << 1, 2 >> the
\* closure of request 2 around the closure of request 1. Request r has the
\* request id r.
OriginalFactory == <<>>
\* the request_id of a record the factory makes: that of the outermost
\* closure, 0 when the original factory made it (no such attribute)
Carried(factory) == IF Len(factory) = 0 THEN 0 ELSE factory[Len(factory)]

InitMiddleware ==
    /\ IdleReview
    /\ arg = [fn |-> "add_request_id", requests |-> Requests]
    /\ ret = [kind |-> "return",
              factory |-> OriginalFactory,
              at |-> [r \in Requests |-> "idle"],
              old_factory |-> [r \in Requests |-> OriginalFactory],
              records |-> {},
              overlapped |-> FALSE]

\* add_request_id up to its await of call_next: the installed factory is kept
\* as old_factory and the closure around it is installed
MiddlewareEnter(r) ==
    /\ arg.fn = "add_request_id"
    /\ ret.at[r] = "idle"
    /\ ret' = [ret EXCEPT !.at[r] = "inflight",
                          !.old_factory[r] = ret.factory,
                          !.factory = Append(ret.factory, r),
                          !.overlapped = @ \/ \E q \in Requests : ret.at[q] = "inflight"]
    /\ UNCHANGED << arg, review >>

\* the handler of request r logs a record while the request is in flight
HandlerLogs(r) ==
    /\ arg.fn = "add_request_id"
    /\ ret.at[r] = "inflight"
    /\ ret' = [ret EXCEPT !.records = @ \cup {[by |-> r, request_id |-> Carried(ret.factory)]}]
    /\ UNCHANGED << arg, review >>

\* add_request_id after call_next returned: old_factory is installed again
MiddlewareExit(r) ==
    /\ arg.fn = "add_request_id"
    /\ ret.at[r] = "inflight"
    /\ ret' = [ret EXCEPT !.at[r] = "done", !.factory = ret.old_factory[r]]
    /\ UNCHANGED << arg, review >>

NextMiddleware ==
    \/ \E r \in Requests : MiddlewareEnter(r)
    \/ \E r \in Requests : HandlerLogs(r)
    \/ \E r \in Requests : MiddlewareExit(r)

SpecMiddleware == InitMiddleware /\ [][NextMiddleware]_vars

\* ---- C30
InMiddleware == arg.fn = "add_request_id"
NoneInFlight == \A r \in Requests : ret.at[r] # "inflight"
OwnRequestIds == \A rec \in ret.records : rec.request_id = rec.by

\* C30: for every interleaving of concurrent requests, once no request is in
\* flight the installed log record factory is the original one, and the log
\* records of a request in flight carry its own request id.
C30_FactoryRestored ==
    InMiddleware =>
        /\ NoneInFlight => ret.factory = OriginalFactory
        /\ OwnRequestIds

\* What the code does: as long as no request started while another was in
\* flight, the factory is restored and every record carries its request's id
C30_RestoredWithoutOverlap ==
    (InMiddleware /\ ~ret.overlapped) =>
        /\ NoneInFlight => ret.factory = OriginalFactory
        /\ OwnRequestIds

\* request 2 started while request 1 was in flight and request 1 ended first:
\* both are done and the closure of request 1 is the installed factory
C30_StaleFactory ==
    /\ InMiddleware
    /\ \A r \in Requests : ret.at[r] = "done"
    /\ ret.factory = << 1 >>
====
